---------------------------- MODULE Spec2Model ----------------------------
(***************************************************************************)
(* Model of the command grammar compiler (GraphGenerator.generateGraph),   *)
(* the graph matcher (GraphGenerator.processInput) and the command         *)
(* resolver (CLI.parseInput / CLI.resolveCommand / CLI.sendInput) of       *)
(* JustLibServer.                                                          *)
(*                                                                         *)
(* Strings are sequences of one-character strings, so that JavaScript's    *)
(* startsWith / length / === are computed and not assumed.  Objects that   *)
(* the code shares by reference (graph nodes, MatchResult objects) live in *)
(* arenas (sequences) and are referred to by their index.                  *)
(***************************************************************************)
EXTENDS Integers, Sequences, FiniteSets, TLC

VARIABLES
    commands,   \* CLI.commands: the registered Command objects, in registration order
    tokens,     \* the argument vector (argv) of the last matcher call / submitted line
    results,    \* the MatchResult list of the last matcher call(s), command attached
    outcome,    \* what the last parseInput did: an error code or a resolved command
    calls,      \* how often each command's callback ran for the last submitted line
    providerCalls,  \* how often a provider function ran in the last matcher call(s)
    loop,       \* the locals of a matcher call in progress: stack, matches, match objects
    cli         \* the input line of the CLI: buffer, hint, autocomplete, pending previews

vars == <<commands, tokens, results, outcome, calls, providerCalls, loop, cli>>

-----------------------------------------------------------------------------
(* Strings *)

\* String.prototype.startsWith
startsWith(s, p) == Len(p) <= Len(s) /\ SubSeq(s, 1, Len(p)) = p

\* Array.prototype.filter, order kept
RECURSIVE filterStartsWith(_, _)
filterStartsWith(enum, arg) ==
    IF enum = <<>> THEN <<>>
    ELSE (IF startsWith(Head(enum), arg) THEN <<Head(enum)>> ELSE <<>>)
         \o filterStartsWith(Tail(enum), arg)

\* The list as it is, repeated elements kept
dedupe_keepAll(xs) == xs

\* [...new Set(xs)]: the first occurrence of every element, in order
RECURSIVE dedupe(_)
dedupe(xs) ==
    IF xs = <<>> THEN <<>>
    ELSE LET init == dedupe(SubSeq(xs, 1, Len(xs) - 1))
             last == xs[Len(xs)]
         IN IF \E i \in 1..Len(init) : init[i] = last THEN init ELSE Append(init, last)

-----------------------------------------------------------------------------
(* Segments.  One record shape for all five classes; `cls` is the class,   *)
(* `oid` the object identity (the key of nodeCache), type = "" is an unset *)
(* type, hasEnum / hasProvider / hasProvided tell a value from undefined.  *)

NoName == <<>>

ControlSegment(id, isBof) ==
    [cls |-> "control", oid |-> <<>>, name |-> NoName, type |-> "", hasEnum |-> FALSE,
     enum |-> <<>>, hasProvider |-> FALSE, provider |-> <<>>, hasProvided |-> FALSE,
     provided |-> <<>>, isRest |-> FALSE, segments |-> <<>>, subSegments |-> <<>>,
     id |-> id, isBof |-> isBof]

KeywordSegment(name) ==
    [cls |-> "keyword", oid |-> <<>>, name |-> name, type |-> "", hasEnum |-> FALSE,
     enum |-> <<>>, hasProvider |-> FALSE, provider |-> <<>>, hasProvided |-> FALSE,
     provided |-> <<>>, isRest |-> FALSE, segments |-> <<>>, subSegments |-> <<>>,
     id |-> 0, isBof |-> FALSE]

\* type "" stands for undefined; enum is deduplicated by the constructor;
\* provider is the list the provider function returns; _provided_enum starts null
VariableSegment(name, type, hasEnum, enum, hasProvider, provider, isRest) ==
    [cls |-> "variable", oid |-> <<>>, name |-> name, type |-> type, hasEnum |-> hasEnum,
     enum |-> IF hasEnum THEN dedupe(enum) ELSE <<>>,
     hasProvider |-> hasProvider, provider |-> provider, hasProvided |-> FALSE,
     provided |-> <<>>, isRest |-> isRest, segments |-> <<>>, subSegments |-> <<>>,
     id |-> 0, isBof |-> FALSE]

OptionalSegment(segments) ==
    [cls |-> "optional", oid |-> <<>>, name |-> NoName, type |-> "", hasEnum |-> FALSE,
     enum |-> <<>>, hasProvider |-> FALSE, provider |-> <<>>, hasProvided |-> FALSE,
     provided |-> <<>>, isRest |-> FALSE, segments |-> segments, subSegments |-> <<>>,
     id |-> 0, isBof |-> FALSE]

UnionSegment(subSegments) ==
    [cls |-> "union", oid |-> <<>>, name |-> NoName, type |-> "", hasEnum |-> FALSE,
     enum |-> <<>>, hasProvider |-> FALSE, provider |-> <<>>, hasProvided |-> FALSE,
     provided |-> <<>>, isRest |-> FALSE, segments |-> <<>>, subSegments |-> subSegments,
     id |-> 0, isBof |-> FALSE]

\* The factory functions of the authoring surface
Keyword(name) == KeywordSegment(name)
Variable(name, type) == VariableSegment(name, type, FALSE, <<>>, FALSE, <<>>, FALSE)
EnumVariable(name, enum) == VariableSegment(name, "", TRUE, enum, FALSE, <<>>, FALSE)
ProviderVariable(name, list) == VariableSegment(name, "", FALSE, <<>>, TRUE, list, FALSE)
RestVariable(name, type) == VariableSegment(name, type, FALSE, <<>>, FALSE, <<>>, TRUE)
RestProviderVariable(name, list) == VariableSegment(name, "", FALSE, <<>>, TRUE, list, TRUE)
Optional(segments) == OptionalSegment(segments)
Union(subSegments) == UnionSegment(subSegments)

\* Every `new` yields a distinct object: a scheme written with the factory
\* functions holds distinct instances, named here by their place in the scheme.
RECURSIVE Instances(_, _)
RECURSIVE InstancesOfBranches(_, _)
Instances(segments, path) ==
    [i \in 1..Len(segments) |->
        LET s == segments[i]
            p == Append(path, i)
        IN [s EXCEPT !.oid = p,
                     !.segments = Instances(s.segments, p),
                     !.subSegments = InstancesOfBranches(s.subSegments, p)]]
InstancesOfBranches(subSegments, path) ==
    [b \in 1..Len(subSegments) |-> Instances(subSegments[b], Append(path, b))]

-----------------------------------------------------------------------------
(* Graph compiler.  A GraphGenerator is its node arena and its id          *)
(* generator; a GraphNode is [segment, edges], edges being arena indices   *)
(* in the order they were pushed.                                          *)

\* new GraphGenerator(): an empty nodeCache and an IdGenerator starting at 0
NewGraphGenerator == [nodes |-> <<>>, nextId |-> 0]

GraphNode(segment, edges) == [segment |-> segment, edges |-> edges]

\* from.edges.push(to)
AddEdge(G, from, to) == [G EXCEPT !.nodes[from].edges = Append(@, to)]

\* createMarkerSet that leaves the generator where it was
createMarkerSet_sameId(G) ==
    LET id == G.nextId
        n == Len(G.nodes)
    IN [G |-> [nodes |-> G.nodes \o <<GraphNode(ControlSegment(id, TRUE), <<>>),
                                      GraphNode(ControlSegment(id, FALSE), <<>>)>>,
               nextId |-> id],
        bof |-> n + 1,
        eof |-> n + 2]

\* createMarkerSet: one id from the generator, a BOF and an EOF node carrying it
createMarkerSet(G) ==
    LET id == G.nextId
        n == Len(G.nodes)
    IN [G |-> [nodes |-> G.nodes \o <<GraphNode(ControlSegment(id, TRUE), <<>>),
                                      GraphNode(ControlSegment(id, FALSE), <<>>)>>,
               nextId |-> id + 1],
        bof |-> n + 1,
        eof |-> n + 2]

\* createNode: the cached node of this segment instance, or a new one
createNode(G, segment) ==
    LET cached == {k \in 1..Len(G.nodes) :
                      /\ G.nodes[k].segment.cls # "control"
                      /\ G.nodes[k].segment.oid = segment.oid}
    IN IF cached # {}
       THEN [G |-> G, node |-> CHOOSE k \in cached : TRUE]
       ELSE [G |-> [G EXCEPT !.nodes = Append(@, GraphNode(segment, <<>>))],
             node |-> Len(G.nodes) + 1]

\* The chaining loops of __createOptionalChaining: for i < j, in loop order,
\* chain[i].exit.edges.push(chain[j].entry)
RECURSIVE chainEdges(_, _, _, _)
chainEdges(G, chain, i, j) ==
    IF i > Len(chain) THEN G
    ELSE IF j > Len(chain) THEN chainEdges(G, chain, i + 1, i + 2)
    ELSE chainEdges(AddEdge(G, chain[i][2], chain[j][1]), chain, i, j + 1)

\* The chaining loops linking every exit to the next entry only
RECURSIVE chainEdges_adjacentOnly(_, _, _, _)
chainEdges_adjacentOnly(G, chain, i, j) ==
    IF i >= Len(chain) THEN G
    ELSE chainEdges_adjacentOnly(AddEdge(G, chain[i][2], chain[i + 1][1]), chain, i + 1, i + 2)

createOptionalChaining_adjacentOnly(G, optionalChain, endNode) ==
    chainEdges_adjacentOnly(G, Append(optionalChain, <<endNode, 0>>), 1, 2)

\* __createOptionalChaining(endNode): the end node joins the chain with a null
\* exit (0), the chainings are made (the caller then clears the chain)
createOptionalChaining(G, optionalChain, endNode) ==
    chainEdges(G, Append(optionalChain, <<endNode, 0>>), 1, 2)

RECURSIVE generateGraph(_, _)
RECURSIVE generateSegments(_, _, _, _, _, _, _)
RECURSIVE generateUnion(_, _, _, _, _)

\* The loop over the branches that also links every branch's end back to the
\* union's entry
RECURSIVE generateUnion_reentrant(_, _, _, _, _)
generateUnion_reentrant(G, subSegments, b, unionBof, unionEof) ==
    IF b > Len(subSegments) THEN G
    ELSE LET r == generateGraph(G, subSegments[b])
             G1 == AddEdge(r.G, unionBof, r.bof)
             G2 == AddEdge(AddEdge(G1, r.eof, unionEof), r.eof, unionBof)
         IN generateUnion_reentrant(G2, subSegments, b + 1, unionBof, unionEof)

\* The loop over segment.subSegments of a UnionSegment
generateUnion(G, subSegments, b, unionBof, unionEof) ==
    IF b > Len(subSegments) THEN G
    ELSE LET r == generateGraph(G, subSegments[b])
             G1 == AddEdge(r.G, unionBof, r.bof)
             G2 == AddEdge(G1, r.eof, unionEof)
         IN generateUnion(G2, subSegments, b + 1, unionBof, unionEof)

\* The loop over the segments of one scope and what follows it
generateSegments(G, segments, i, currentNode, optionalChain, bof, eof) ==
    IF i > Len(segments)
    THEN LET G1 == IF Len(optionalChain) > 0
                   THEN createOptionalChaining(G, optionalChain, eof)
                   ELSE G
         IN [G |-> AddEdge(G1, currentNode, eof), bof |-> bof, eof |-> eof]
    ELSE LET segment == segments[i] IN
         IF segment.cls = "optional"
         THEN LET r == generateGraph(G, segment.segments)
              IN generateSegments(AddEdge(r.G, currentNode, r.bof), segments, i + 1,
                                  currentNode, Append(optionalChain, <<r.bof, r.eof>>),
                                  bof, eof)
         ELSE IF segment.cls = "union"
         THEN LET m == createMarkerSet(G)
                  G1 == AddEdge(m.G, currentNode, m.bof)
                  G2 == generateUnion(G1, segment.subSegments, 1, m.bof, m.eof)
              IN generateSegments(G2, segments, i + 1, m.eof, optionalChain, bof, eof)
         ELSE LET c == createNode(G, segment)
                  newNode == c.node
                  G1 == AddEdge(c.G, currentNode, newNode)
                  G2 == IF segment.cls = "variable" /\ segment.isRest
                        THEN AddEdge(G1, newNode, newNode)
                        ELSE G1
                  G3 == IF Len(optionalChain) > 0
                        THEN createOptionalChaining(G2, optionalChain, newNode)
                        ELSE G2
              IN generateSegments(G3, segments, i + 1, newNode, <<>>, bof, eof)

generateGraph(G, segments) ==
    LET m == createMarkerSet(G)
    IN generateSegments(m.G, segments, 1, m.bof, <<>>, m.bof, m.eof)

\* The constructors' checks: if(!this.name) throw ..., and
\* if(this.type && !supportedTypes.includes(this.type)) throw ...
supportedTypes == {"any", "number", "string", "boolean", "date", "flag"}

\* constructorThrows without the check of the variable's type
constructorThrows_anyType(segment) ==
    (segment.cls = "keyword" \/ segment.cls = "variable") /\ segment.name = <<>>

constructorThrows(segment) ==
    \/ segment.cls = "keyword" /\ segment.name = <<>>
    \/ segment.cls = "variable" /\ segment.name = <<>>
    \/ segment.cls = "variable" /\ segment.type # "" /\ segment.type \notin supportedTypes

\* Some constructor throws while the segments of a scheme are constructed
RECURSIVE anyThrows(_)
anyThrows(segments) ==
    \E i \in 1..Len(segments) :
        \/ constructorThrows(segments[i])
        \/ anyThrows(segments[i].segments)
        \/ \E b \in 1..Len(segments[i].subSegments) : anyThrows(segments[i].subSegments[b])

\* new Command(name, scheme, callback): the name keyword is put in front of
\* the scheme and the scheme is compiled by a generator of its own
Command(name, scheme) ==
    LET full == Instances(<<KeywordSegment(name)>> \o scheme, <<>>)
        r == generateGraph(NewGraphGenerator, full)
    IN [name |-> name, scheme |-> full, nodes |-> r.G.nodes, graph |-> r.bof]

-----------------------------------------------------------------------------
(* Values.  A JavaScript value bound to a variable: a string, a number     *)
(* m / 10^e (e >= 0, no trailing zero digit behind the point), a boolean,  *)
(* or the Date made from a string.                                         *)

StringValue(s) == [t |-> "string", s |-> s, m |-> 0, e |-> 0, b |-> FALSE]
NumberValue(m, e) == [t |-> "number", s |-> <<>>, m |-> m, e |-> e, b |-> FALSE]
BooleanValue(b) == [t |-> "boolean", s |-> <<>>, m |-> 0, e |-> 0, b |-> b]
DateValue(s) == [t |-> "date", s |-> s, m |-> 0, e |-> 0, b |-> FALSE]

Digits == {"0", "1", "2", "3", "4", "5", "6", "7", "8", "9"}

DigitValue(c) ==
    CASE c = "0" -> 0 [] c = "1" -> 1 [] c = "2" -> 2 [] c = "3" -> 3 [] c = "4" -> 4
      [] c = "5" -> 5 [] c = "6" -> 6 [] c = "7" -> 7 [] c = "8" -> 8 [] c = "9" -> 9

\* The strings ToNumber turns into a number, among the strings of digits, "."
\* and letters that the inputs are made of (no sign, exponent, white space or
\* "Infinity"): a decimal literal, which is digits with at most one "." and at
\* least one digit, or a hexadecimal integer literal, which is 0x and hex digits
IsDecimalLiteral(value) ==
    /\ \A i \in 1..Len(value) : value[i] \in Digits \cup {"."}
    /\ Cardinality({i \in 1..Len(value) : value[i] = "."}) <= 1
    /\ \E i \in 1..Len(value) : value[i] \in Digits

HexDigits == Digits \cup {"a", "b", "c", "d", "e", "f"}

IsHexLiteral(value) ==
    /\ Len(value) >= 3
    /\ value[1] = "0"
    /\ value[2] = "x"
    /\ \A i \in 3..Len(value) : value[i] \in HexDigits

\* VariableSegment.isNaN: value === "" || isNaN(value)
IsNaN(value) == value = <<>> \/ ~(IsDecimalLiteral(value) \/ IsHexLiteral(value))

RECURSIVE DigitsToNat(_)
DigitsToNat(ds) ==
    IF ds = <<>> THEN 0
    ELSE 10 * DigitsToNat(SubSeq(ds, 1, Len(ds) - 1)) + DigitValue(ds[Len(ds)])

RECURSIVE Normalize(_, _)
Normalize(m, e) == IF e > 0 /\ m % 10 = 0 THEN Normalize(m \div 10, e - 1) ELSE NumberValue(m, e)

\* The number a decimal literal denotes
DecimalValue(value) ==
    LET dots == {i \in 1..Len(value) : value[i] = "."}
        dot == IF dots = {} THEN Len(value) + 1 ELSE CHOOSE i \in dots : TRUE
        int == SubSeq(value, 1, dot - 1)
        frac == SubSeq(value, dot + 1, Len(value))
    IN Normalize(DigitsToNat(int \o frac), Len(frac))

NaNValue == [t |-> "NaN", s |-> <<>>, m |-> 0, e |-> 0, b |-> FALSE]

\* parseFloat: the number of the longest prefix that is a decimal literal
\* (of 0x10 that prefix is 0), NaN when no prefix is one
ParseFloat(value) ==
    LET ks == {k \in 1..Len(value) : IsDecimalLiteral(SubSeq(value, 1, k))}
    IN IF ks = {} THEN NaNValue
       ELSE DecimalValue(SubSeq(value, 1, CHOOSE k \in ks : \A j \in ks : j <= k))

\* !isNaN(Date.parse(value)) for the date-time string format the language
\* defines over digits: a four digit year.  Other strings go to the engine's
\* own fallback parser and are kept out of the inputs of date variables.
IsDateString(value) == Len(value) = 4 /\ \A i \in 1..4 : value[i] \in Digits

\* VariableSegment.compareType
compareType(value, segment) ==
    IF segment.type = "number" THEN ~IsNaN(value)
    ELSE IF segment.type = "string" THEN TRUE
    ELSE IF segment.type = "boolean" THEN value = <<"t","r","u","e">> \/ value = <<"f","a","l","s","e">>
    ELSE IF segment.type = "date" THEN value # <<>> /\ IsDateString(value)
    ELSE IF segment.type = "flag" THEN value = segment.name
    ELSE TRUE

\* parseValue without the coercion: the raw token is bound
parseValue_raw(value, segment) == StringValue(value)

\* VariableSegment.parseValue
parseValue(value, segment) ==
    IF segment.type = "number" /\ compareType(value, segment) THEN ParseFloat(value)
    ELSE IF segment.type = "boolean" /\ compareType(value, segment)
         THEN BooleanValue(value = <<"t","r","u","e">>)
    ELSE IF segment.type = "date" /\ compareType(value, segment) THEN DateValue(value)
    ELSE IF segment.type = "flag" /\ compareType(value, segment) THEN BooleanValue(TRUE)
    ELSE IF segment.type = "string" THEN StringValue(value)
    ELSE StringValue(value)

-----------------------------------------------------------------------------
(* Graph matcher.  MatchResult objects are shared by reference between     *)
(* stack frames and are mutated, so they live in a heap and frames and the *)
(* result list hold heap indices.  `index` is the 0-based argv position.   *)

MatchedNode(node, raw, value, enums) ==
    [node |-> node, raw |-> raw, value |-> value, enums |-> enums]

MatchResult(nodes) == [nodes |-> nodes, isPartial |-> FALSE, isInvokable |-> FALSE]

Frame(node, match, index) == [node |-> node, match |-> match, index |-> index]

\* stack.push(...node.edges.map(node => ({node, match, index})))
pushEdges(stack, edges, match, index) ==
    stack \o [k \in 1..Len(edges) |-> Frame(edges[k], match, index)]

\* A non-control node popped when no argument is left: the frame's match is
\* marked partial and emitted
stepNoMoreArguments(S, item) ==
    [S EXCEPT !.heap[item.match].isPartial = TRUE,
              !.matches = Append(@, item.match)]

\* stepControl that takes the EOF of any scope as the final one
stepControl_anyEOF(S, item, argv) ==
    LET node == S.nodes[item.node]
        segment == node.segment
        hasMoreArguments == item.index < Len(argv)
        S1 == [S EXCEPT !.stack = pushEdges(@, node.edges, item.match, item.index)]
    IN IF segment.isBof THEN S1
       ELSE IF ~hasMoreArguments
            THEN [S1 EXCEPT !.heap[item.match].isInvokable = TRUE,
                            !.matches = Append(@, item.match)]
            ELSE S1

\* stepControl that takes the final EOF as the end whatever is left of argv
stepControl_ignoresRemaining(S, item, argv) ==
    LET node == S.nodes[item.node]
        segment == node.segment
        isFinalEOF == ~segment.isBof /\ segment.id = 0
        S1 == [S EXCEPT !.stack = pushEdges(@, node.edges, item.match, item.index)]
    IN IF segment.isBof THEN S1
       ELSE IF isFinalEOF
            THEN [S1 EXCEPT !.heap[item.match].isInvokable = TRUE,
                            !.matches = Append(@, item.match)]
            ELSE S1

\* A BOF or EOF marker: its edges are pushed with the same match and index;
\* the final EOF (id 0) with no argument left marks the match invokable and emits it
stepControl(S, item, argv) ==
    LET node == S.nodes[item.node]
        segment == node.segment
        isFinalEOF == ~segment.isBof /\ segment.id = 0
        hasMoreArguments == item.index < Len(argv)
        S1 == [S EXCEPT !.stack = pushEdges(@, node.edges, item.match, item.index)]
    IN IF segment.isBof THEN S1
       ELSE IF isFinalEOF /\ ~hasMoreArguments
            THEN [S1 EXCEPT !.heap[item.match].isInvokable = TRUE,
                            !.matches = Append(@, item.match)]
            ELSE S1

\* The new MatchResult of an iteration: the frame's nodes and the current one
newMatchOf(S, item, currentMatchNode) ==
    MatchResult(Append(S.heap[item.match].nodes, currentMatchNode))

\* advance that pushes the edges with the index it was at
advance_sameIndex(S, item, newMatch) ==
    [S EXCEPT !.heap = Append(@, newMatch),
              !.stack = pushEdges(@, S.nodes[item.node].edges, Len(S.heap) + 1, item.index)]

\* advance that takes the edges it follows off the node
advance_detach(S, item, newMatch) ==
    [S EXCEPT !.heap = Append(@, newMatch),
              !.stack = pushEdges(@, S.nodes[item.node].edges, Len(S.heap) + 1,
                                  item.index + 1),
              !.nodes[item.node].edges = <<>>]

\* A full match: the edges are pushed with the new match and the next index
advance(S, item, newMatch) ==
    [S EXCEPT !.heap = Append(@, newMatch),
              !.stack = pushEdges(@, S.nodes[item.node].edges, Len(S.heap) + 1,
                                  item.index + 1)]

\* A partial match: the new match is emitted, no edge is pushed
emit(S, newMatch) ==
    [S EXCEPT !.heap = Append(@, newMatch),
              !.matches = Append(@, Len(S.heap) + 1)]

\* stepKeyword without the length test of a full match
stepKeyword_prefixIsFull(S, item, argv) ==
    LET segment == S.nodes[item.node].segment
        arg == argv[item.index + 1]
        newMatch == newMatchOf(S, item, MatchedNode(item.node, arg, StringValue(arg), <<>>))
    IN IF startsWith(segment.name, arg) THEN advance(S, item, newMatch) ELSE S

\* stepKeyword that emits an unfinished keyword at any position of argv
stepKeyword_partialAnywhere(S, item, argv) ==
    LET segment == S.nodes[item.node].segment
        arg == argv[item.index + 1]
        newMatch == newMatchOf(S, item, MatchedNode(item.node, arg, StringValue(arg), <<>>))
        isPartial == startsWith(segment.name, arg)
        isFull == isPartial /\ Len(segment.name) = Len(arg)
    IN IF isFull THEN advance(S, item, newMatch)
       ELSE IF isPartial THEN emit(S, newMatch)
       ELSE S

stepKeyword(S, item, argv) ==
    LET segment == S.nodes[item.node].segment
        arg == argv[item.index + 1]
        isLastArgument == item.index = Len(argv) - 1
        newMatch == newMatchOf(S, item, MatchedNode(item.node, arg, StringValue(arg), <<>>))
        isPartial == startsWith(segment.name, arg)
        isFull == isPartial /\ Len(segment.name) = Len(arg)
    IN IF isFull THEN advance(S, item, newMatch)
       ELSE IF isPartial /\ isLastArgument THEN emit(S, newMatch)
       ELSE S

\* segment.enum || segment.provider && (segment._provided_enum = segment.provider()) || null
\* as [has, enum, called]: an array is truthy even when empty
computedEnumOf(segment) ==
    IF segment.hasEnum THEN [has |-> TRUE, enum |-> segment.enum, called |-> FALSE]
    ELSE IF segment.hasProvider
         THEN [has |-> TRUE, enum |-> segment.provider, called |-> TRUE]
         ELSE [has |-> FALSE, enum |-> <<>>, called |-> FALSE]

stepVariable(S, item, argv) ==
    LET segment == S.nodes[item.node].segment
        arg == argv[item.index + 1]
        isTypeMatch == segment.type # "" /\ compareType(arg, segment)
        isEmptyNonString == segment.type # "string" /\ arg = <<>>
        computedEnum == computedEnumOf(segment)
        matchingEnums == IF computedEnum.has THEN filterStartsWith(computedEnum.enum, arg)
                         ELSE <<>>
        hasMatchingEnums == Len(matchingEnums) > 0
        isEnumMatch == Len(matchingEnums) = 1 /\ Len(matchingEnums[1]) = Len(arg)
        hasMatchingFlag == segment.type = "flag" /\ startsWith(segment.name, arg)
        isFlagMatch == segment.type = "flag" /\ arg = segment.name
        isPartial == isEmptyNonString \/ hasMatchingEnums \/ hasMatchingFlag
        isFull == isTypeMatch \/ isEnumMatch \/ isFlagMatch
        value == IF isTypeMatch /\ segment.type # "" THEN parseValue(arg, segment)
                 ELSE StringValue(arg)
        newMatch == newMatchOf(S, item, MatchedNode(item.node, arg, value, matchingEnums))
        S1 == IF computedEnum.called
              THEN [S EXCEPT !.nodes[item.node].segment.hasProvided = TRUE,
                             !.nodes[item.node].segment.provided = computedEnum.enum,
                             !.providerCalls = @ + 1]
              ELSE S
    IN IF isFull THEN advance(S1, item, newMatch)
       ELSE IF isPartial THEN emit(S1, newMatch)
       ELSE S1

\* The locals of processInput before the loop: an empty list of matches, a
\* stack holding the graph's entry with an empty match at index 0; `running`
\* and `steps` tell whether and how long the loop has been running
startOf(nodes, graph) ==
    [nodes |-> nodes,
     heap |-> <<MatchResult(<<>>)>>,
     stack |-> <<Frame(graph, 1, 0)>>,
     matches |-> <<>>,
     providerCalls |-> 0,
     running |-> TRUE,
     steps |-> 0,
     command |-> 0]

\* No matcher call is in progress
NoLoop ==
    [nodes |-> <<>>, heap |-> <<>>, stack |-> <<>>, matches |-> <<>>, providerCalls |-> 0,
     running |-> FALSE, steps |-> 0, command |-> 0]

\* One iteration of the while loop: the top frame is popped and handled
processStep(S, argv) ==
    LET item == S.stack[Len(S.stack)]
        P == [S EXCEPT !.stack = SubSeq(@, 1, Len(@) - 1)]
        segment == S.nodes[item.node].segment
        isControl == segment.cls = "control"
        hasMoreArguments == item.index < Len(argv)
    IN IF ~isControl /\ ~hasMoreArguments THEN stepNoMoreArguments(P, item)
       ELSE IF segment.cls = "control" THEN stepControl(P, item, argv)
       ELSE IF segment.cls = "keyword" THEN stepKeyword(P, item, argv)
       ELSE IF segment.cls = "variable" THEN stepVariable(P, item, argv)
       ELSE P

RECURSIVE processLoop(_, _)
processLoop(S, argv) == IF S.stack = <<>> THEN S ELSE processLoop(processStep(S, argv), argv)

\* GraphGenerator.processInput(argv, graph): the state the loop ends in, with
\* `matches` the returned list [...new Set(matches)]; `nodes` is the graph
\* after the call (segments carry _provided_enum)
processInput(argv, nodes, graph) ==
    LET S == processLoop(startOf(nodes, graph), argv)
    IN [S EXCEPT !.matches = dedupe(@)]

-----------------------------------------------------------------------------
(* Command resolver: CLI.parseArgv, CLI.parseInput, CLI.resolveCommand.    *)

\* The matches of argv.matchAll(...) for a line that holds no quote and no
\* line feed: the maximal runs of characters other than the space
RECURSIVE splitWords(_, _, _)
splitWords(input, i, word) ==
    IF i > Len(input) THEN (IF word = <<>> THEN <<>> ELSE <<word>>)
    ELSE IF input[i] = " "
         THEN (IF word = <<>> THEN <<>> ELSE <<word>>) \o splitWords(input, i + 1, <<>>)
         ELSE splitWords(input, i + 1, Append(word, input[i]))

\* CLI.parseArgv
parseArgv(input) ==
    IF input = <<>> THEN <<>>
    ELSE LET words == splitWords(input, 1, <<>>)
         IN IF input[Len(input)] = " " THEN Append(words, <<>>) ELSE words

\* The MatchResults the matcher returned for command k, each with its command
\* (matches.forEach(e => e.command = cmd); here: the command's index) and
\* with the identity of the object (its place in the matcher's heap)
matchesOf(r, k) ==
    [i \in 1..Len(r.matches) |->
        [nodes |-> r.heap[r.matches[i]].nodes,
         isPartial |-> r.heap[r.matches[i]].isPartial,
         isInvokable |-> r.heap[r.matches[i]].isInvokable,
         command |-> k,
         object |-> r.matches[i]]]

\* The loop of parseInput over this.commands: every command's graph is
\* matched; each result gets its command (here: the command's index);
\* cmds is the command list with the graphs as the matcher left them
RECURSIVE lookupCommands(_, _, _, _)
RECURSIVE lookupNext(_, _, _, _, _)
lookupCommands(cmds, argv, k, matches) ==
    IF k > Len(cmds) THEN [commands |-> cmds, matches |-> matches, providerCalls |-> 0]
    ELSE lookupNext(cmds, argv, k, matches, processInput(argv, cmds[k].nodes, cmds[k].graph))

\* The provider calls of one matcher call, added to those of the later ones
withProviderCalls(l, n) == [l EXCEPT !.providerCalls = @ + n]

\* The loop body once command k's graph was matched: r is what the matcher returned
lookupNext(cmds, argv, k, matches, r) ==
    withProviderCalls(lookupCommands([cmds EXCEPT ![k].nodes = r.nodes], argv, k + 1,
                                     matches \o matchesOf(r, k)),
                      r.providerCalls)

\* Array.prototype.filter(e => e.isInvokable)
RECURSIVE filterInvokable(_)
filterInvokable(rs) ==
    IF rs = <<>> THEN <<>>
    ELSE (IF Head(rs).isInvokable THEN <<Head(rs)>> ELSE <<>>) \o filterInvokable(Tail(rs))

\* scoreOf without the tier of the typed variables
scoreOf_flat(segment) ==
    IF segment.cls = "keyword" THEN 4
    ELSE IF segment.cls = "variable"
         THEN (IF segment.hasEnum \/ segment.hasProvided THEN 3 ELSE 1)
         ELSE 0

\* What one node adds to a candidate's score
scoreOf(segment) ==
    IF segment.cls = "keyword" THEN 4
    ELSE IF segment.cls = "variable"
         THEN (IF segment.hasEnum \/ segment.hasProvided THEN 3
               ELSE IF segment.type # "" /\ segment.type # "string" THEN 2
               ELSE 1)
         ELSE 0

\* The score loops for candidate j: positions 0 .. invokable[0].nodes.length - 1
RECURSIVE scoreLoop(_, _, _, _)
scoreLoop(cmds, invokable, j, i) ==
    IF i > Len(invokable[1].nodes) THEN 0
    ELSE scoreOf(cmds[invokable[j].command].nodes[invokable[j].nodes[i].node].segment)
         + scoreLoop(cmds, invokable, j, i + 1)

\* cadidates.sort((a, b) => b.score - a.score): stable, highest score first
RECURSIVE sortByScore(_)
sortByScore(cs) ==
    IF cs = <<>> THEN <<>>
    ELSE LET rest == sortByScore(SubSeq(cs, 1, Len(cs) - 1))
             last == cs[Len(cs)]
             before == {k \in 1..Len(rest) : rest[k].score >= last.score}
             n == Cardinality(before)
         IN SubSeq(rest, 1, n) \o <<last>> \o SubSeq(rest, n + 1, Len(rest))

\* filterScore that keeps the first candidate only
filterScore_first(cs, score) == IF cs = <<>> THEN <<>> ELSE <<Head(cs)>>

RECURSIVE filterScore(_, _)
filterScore(cs, score) ==
    IF cs = <<>> THEN <<>>
    ELSE (IF Head(cs).score = score THEN <<Head(cs)>> ELSE <<>>) \o filterScore(Tail(cs), score)

\* A property of the variables object: a single value or an array of values
Single(value) == [isArray |-> FALSE, value |-> value, items |-> <<>>]
Array(items) == [isArray |-> TRUE, value |-> StringValue(<<>>), items |-> items]

\* The reduce that keeps the value a name was bound to first
RECURSIVE bindVariables_firstWins(_, _, _, _)
bindVariables_firstWins(nodes, matched, i, obj) ==
    IF i > Len(matched) THEN obj
    ELSE LET e == matched[i]
             segment == nodes[e.node].segment
             name == segment.name
         IN IF segment.cls = "variable" /\ name \notin DOMAIN obj
            THEN bindVariables_firstWins(nodes, matched, i + 1,
                                         [n \in DOMAIN obj \cup {name} |->
                                             IF n = name THEN Single(e.value) ELSE obj[n]])
            ELSE bindVariables_firstWins(nodes, matched, i + 1, obj)

\* The reduce over candidate.nodes that builds the variables object
RECURSIVE bindVariables(_, _, _, _)
bindVariables(nodes, matched, i, obj) ==
    IF i > Len(matched) THEN obj
    ELSE LET e == matched[i]
             segment == nodes[e.node].segment
             name == segment.name
             old == IF name \in DOMAIN obj /\ obj[name].isArray THEN obj[name].items ELSE <<>>
             new == IF segment.isRest THEN Array(Append(old, e.value)) ELSE Single(e.value)
         IN IF segment.cls = "variable"
            THEN bindVariables(nodes, matched, i + 1,
                               [n \in DOMAIN obj \cup {name} |->
                                   IF n = name THEN new ELSE obj[n]])
            ELSE bindVariables(nodes, matched, i + 1, obj)

NoVariables == [n \in {} |-> Single(StringValue(<<>>))]

Outcome(kind, command, variables, segments, names) ==
    [kind |-> kind, command |-> command, variables |-> variables,
     segments |-> segments, names |-> names]

\* A thrown CommandError: its code, and the command names its message lists
CommandError(code, names) == Outcome(code, 0, NoVariables, <<>>, names)

\* CLI.resolveCommand(results)
resolveCommand(cmds, results_) ==
    LET invokable == filterInvokable(results_)
        cadidates == [j \in 1..Len(invokable) |->
                         [command |-> invokable[j], score |-> scoreLoop(cmds, invokable, j, 1)]]
        sorted == sortByScore(cadidates)
        filtered == filterScore(sorted, sorted[1].score)
        candidate == IF Len(invokable) > 1 THEN sorted[1].command ELSE invokable[1]
    IN IF Len(invokable) = 0 THEN CommandError("INCOMPLETE_COMMAND", <<>>)
       ELSE IF Len(invokable) > 1
               /\ \E j \in 1..Len(invokable) : Len(invokable[j].nodes) < Len(invokable[1].nodes)
            THEN Outcome("TypeError", 0, NoVariables, <<>>, <<>>)
       ELSE IF Len(invokable) > 1 /\ Len(filtered) > 1
            THEN CommandError("AMBIGUOUS_COMMAND",
                              [k \in 1..Len(filtered) |-> cmds[filtered[k].command.command].name])
       ELSE Outcome("resolved", candidate.command,
                    bindVariables(cmds[candidate.command].nodes, candidate.nodes, 1, NoVariables),
                    invokable[1].nodes, <<>>)

\* parseInput without the check for an empty list of matches
parseInput_noUnknown(cmds, input) ==
    IF input = <<>>
    THEN [commands |-> cmds, argv |-> <<>>, matches |-> <<>>, providerCalls |-> 0,
          outcome |-> Outcome("null", 0, NoVariables, <<>>, <<>>)]
    ELSE LET unchecked(l) ==
                 [commands |-> l.commands, argv |-> parseArgv(input), matches |-> l.matches,
                  providerCalls |-> l.providerCalls,
                  outcome |-> resolveCommand(l.commands, l.matches)]
         IN unchecked(lookupCommands(cmds, parseArgv(input), 1, <<>>))

\* parseInput once every command's graph was matched: l is what the loop left
parsed(argv, l) ==
    [commands |-> l.commands, argv |-> argv, matches |-> l.matches,
     providerCalls |-> l.providerCalls,
     outcome |-> IF Len(l.matches) = 0
                 THEN CommandError("UNKNOWN_COMMAND", <<>>)
                 ELSE resolveCommand(l.commands, l.matches)]

\* CLI.parseInput(input): the outcome, the matches it was made from, and the
\* commands as the matcher left them
parseInput(cmds, input) ==
    IF input = <<>>
    THEN [commands |-> cmds, argv |-> <<>>, matches |-> <<>>, providerCalls |-> 0,
          outcome |-> Outcome("null", 0, NoVariables, <<>>, <<>>)]
    ELSE parsed(parseArgv(input), lookupCommands(cmds, parseArgv(input), 1, <<>>))

-----------------------------------------------------------------------------
(* Event dispatch and line submission.                                     *)

\* EventListener.dispatchEvent(type, data, callback): the listeners run, then
\* the default callback runs once unless a listener prevented the default
dispatchEvent(prevented) == ~prevented

\* The callbacks run by sendInput for a parsed line: the command event is
\* dispatched only for a resolved command, and its default runs the callback
callbackRuns(cmds, result, commandPrevented) ==
    [k \in 1..Len(cmds) |->
        IF result.kind = "resolved" /\ result.command = k /\ dispatchEvent(commandPrevented)
        THEN 1 ELSE 0]

-----------------------------------------------------------------------------
(* The input line: the keypress handler that CLI.begin installs.           *)
(* `cli` holds this.buffer, this.hint, this.autocomplete, the handler's    *)
(* closure variable `autocomplete` (here: completion), the commands that   *)
(* have a preview listener, the handlers suspended at their await, and     *)
(* what the last handler threw.  The segments carry no comment.            *)

\* this.hint and this.autocomplete are null, the closure variable is null
NoHint == [set |-> FALSE, keywords |-> {}, variables |-> {}, CR |-> FALSE]
NoAutocomplete == [set |-> FALSE, raw |-> <<>>, preview |-> <<>>, previewed |-> FALSE]
NoCompletion == [set |-> FALSE, target |-> <<>>, raw |-> <<>>]

\* new CLI() once begin() has resumed it: the prompt "> ", an empty buffer,
\* no hint, no autocomplete, an empty history, no prompt awaiting, no
\* keystroke buffered.  `asking` and `pausing` are the commands whose
\* callbacks call getInput and pause; `asked` counts the getInput calls,
\* `answered` lists the promises resolved, `arrived` and `processed` list the
\* keys that stdin delivered and that _keyProcess was called with, `first`
\* holds what the prompt that became active on an empty queue cached
NewCLI ==
    [buffer |-> <<>>, cursor |-> 0, hint |-> NoHint, autocomplete |-> NoAutocomplete,
     completion |-> NoCompletion, listeners |-> {}, suspended |-> <<>>, thrown |-> "none",
     prompt |-> <<">", " ">>, current |-> <<>>, pointer |-> 0, history |-> <<>>,
     awaitingInputsQueue |-> <<>>, isResumed |-> TRUE, keystrokeBuffer |-> <<>>,
     asking |-> {}, pausing |-> {}, asked |-> 0, answered |-> <<>>,
     arrived |-> <<>>, processed |-> <<>>,
     first |-> [buffer |-> <<>>, cursor |-> 0, prompt |-> <<>>, hint |-> NoHint,
                autocomplete |-> NoAutocomplete]]

\* match.nodes.at(-1).node.segment
lastNode(match) == match.nodes[Len(match.nodes)]
lastSegment(cmds, match) == cmds[match.command].nodes[lastNode(match).node].segment

\* The first match of the list whose last segment is the variable `name`
firstNamed(cmds, matches, name) ==
    CHOOSE i \in 1..Len(matches) :
        /\ lastSegment(cmds, matches[i]).cls = "variable"
        /\ lastSegment(cmds, matches[i]).name = name
        /\ \A j \in 1..(i - 1) : ~(/\ lastSegment(cmds, matches[j]).cls = "variable"
                                   /\ lastSegment(cmds, matches[j]).name = name)

\* The hint: the keywords and the variables (name, types, the enums of the
\* first match that named it) the matches end in, and CR when one is
\* invokable; with none of them the text is "Error"
hintOf(cmds, matches) ==
    LET ends(cls) == {i \in 1..Len(matches) : lastSegment(cmds, matches[i]).cls = cls}
        named(n) == {i \in ends("variable") : lastSegment(cmds, matches[i]).name = n}
    IN [set |-> TRUE,
        keywords |-> {lastSegment(cmds, matches[i]).name : i \in ends("keyword")},
        variables |->
            {[name |-> lastSegment(cmds, matches[i]).name,
              types |-> {lastSegment(cmds, matches[j]).type :
                            j \in named(lastSegment(cmds, matches[i]).name)} \ {""},
              enums |-> lastNode(matches[firstNamed(cmds, matches,
                                     lastSegment(cmds, matches[i]).name)]).enums] :
                i \in ends("variable")},
        CR |-> \E i \in 1..Len(matches) : matches[i].isInvokable]

\* segment.enum || segment._provided_enum as [has, enum]
declaredEnumOf(segment) ==
    IF segment.hasEnum THEN [has |-> TRUE, enum |-> segment.enum]
    ELSE IF segment.hasProvided THEN [has |-> TRUE, enum |-> segment.provided]
    ELSE [has |-> FALSE, enum |-> <<>>]

\* The comparator of the first matches.sort of the handler
compareCompletion(aSegment, bSegment) ==
    LET aEnum == declaredEnumOf(aSegment)
        bEnum == declaredEnumOf(bSegment)
    IN IF aSegment.cls = "variable" /\ bSegment.cls = "variable" /\ aEnum.has /\ bEnum.has
       THEN Len(bEnum.enum) - Len(aEnum.enum)
       ELSE IF aSegment.cls = "variable" /\ bSegment.cls = "variable" /\ aEnum.has THEN -1
       ELSE IF aSegment.cls = "variable" /\ bSegment.cls = "variable" /\ bEnum.has THEN 1
       ELSE IF aSegment.cls = "keyword" /\ bSegment.cls = "keyword" THEN 0
       ELSE IF aSegment.cls = "keyword" THEN -1
       ELSE IF bSegment.cls = "keyword" THEN 1
       ELSE 0

\* The comparator of matches.sort: by completion, or invokable first
compareMatches(cmds, a, b, byInvokable) ==
    IF byInvokable
    THEN (IF b.isInvokable THEN 1 ELSE 0) - (IF a.isInvokable THEN 1 ELSE 0)
    ELSE compareCompletion(lastSegment(cmds, a), lastSegment(cmds, b))

\* Array.prototype.sort with one of the two comparators: stable
RECURSIVE sortMatches(_, _, _)
sortMatches(cmds, matches, byInvokable) ==
    IF matches = <<>> THEN <<>>
    ELSE LET rest == sortMatches(cmds, SubSeq(matches, 1, Len(matches) - 1), byInvokable)
             last == matches[Len(matches)]
             n == Cardinality({k \in 1..Len(rest) :
                                  compareMatches(cmds, rest[k], last, byInvokable) <= 0})
         IN SubSeq(rest, 1, n) \o <<last>> \o SubSeq(rest, n + 1, Len(rest))

\* The completion the handler assigns to its closure variable: sorted is the
\* list of matches after both sorts
completionOf(cmds, sorted) ==
    IF sorted = <<>> THEN NoCompletion
    ELSE LET node == lastNode(sorted[1])
             segment == lastSegment(cmds, sorted[1])
             text == IF segment.cls = "variable" /\ segment.type # "flag"
                        /\ Len(node.enums) # 0
                     THEN node.enums[1] ELSE segment.name
         IN [set |-> TRUE, target |-> text,
             raw |-> SubSeq(text, Len(node.raw) + 1, Len(text))]

\* this.setAutocomplete((autocomplete?.text || "") + (comment || "") || null)
shownCompletion(completion) ==
    [set |-> completion.set, raw |-> completion.raw, preview |-> <<>>, previewed |-> FALSE]

\* What the handler does between `const result = this.resolveCommand(matches)`
\* and its await: resolveCommand throws, or the command has no preview
\* listener and the handler returns, or the handler is suspended
dispatchPreview(C, result) ==
    IF result.kind # "resolved" THEN [C EXCEPT !.thrown = result.kind]
    ELSE IF result.command \notin C.listeners THEN C
    ELSE [C EXCEPT !.suspended = Append(@, [input |-> C.buffer])]

\* The handler on a buffer that is not empty, once every command's graph was
\* matched: l is what the loop over this.commands left
hinted(C, l, sorted) ==
    LET C1 == [C EXCEPT !.hint = hintOf(l.commands, l.matches),
                        !.completion = completionOf(l.commands, sorted),
                        !.autocomplete = shownCompletion(completionOf(l.commands, sorted)),
                        !.thrown = "none"]
    IN [commands |-> l.commands,
        cli |-> IF \E i \in 1..Len(l.matches) : l.matches[i].isInvokable
                THEN dispatchPreview(C1, resolveCommand(l.commands, sorted))
                ELSE C1]

\* The matches after matches.sort(by completion).sort(invokable first)
sortedMatches(cmds, matches) == sortMatches(cmds, sortMatches(cmds, matches, FALSE), TRUE)

hintedFor(C, l) == hinted(C, l, sortedMatches(l.commands, l.matches))

\* The keypress handler up to its first await, with no getInput prompt
\* pending: C is the CLI after the key was processed
onKeypress(C, cmds) ==
    IF C.buffer = <<>>
    THEN [commands |-> cmds,
          cli |-> [C EXCEPT !.hint = NoHint, !.autocomplete = NoAutocomplete,
                            !.thrown = "none"]]
    ELSE hintedFor(C, lookupCommands(cmds, parseArgv(C.buffer), 1, <<>>))

\* The handler suspended at position h goes on after its await with the
\* preview its listener produced (or with none)
afterPreview(C, h, produced) ==
    LET rest == SubSeq(C.suspended, 1, h - 1) \o SubSeq(C.suspended, h + 1, Len(C.suspended))
    IN IF produced
       THEN [C EXCEPT !.suspended = rest,
                      !.autocomplete = [set |-> TRUE, raw |-> C.completion.raw,
                                        preview |-> C.suspended[h].input,
                                        previewed |-> TRUE]]
       ELSE [C EXCEPT !.suspended = rest]

\* The keyinput handler for the tab key: the key becomes the completion's
\* raw text, or the default (inserting the key) is prevented
tabKey(C) ==
    IF C.completion.set /\ C.completion.raw # <<>>
    THEN [inserted |-> C.completion.raw, cli |-> [C EXCEPT !.autocomplete = NoAutocomplete]]
    ELSE [inserted |-> <<>>, cli |-> C]

\* _keyProcess for a key that is inserted at the cursor
insertKey(C, key) ==
    [C EXCEPT !.buffer = SubSeq(@, 1, C.cursor) \o key \o SubSeq(@, C.cursor + 1, Len(@)),
              !.cursor = @ + Len(key)]

\* _keyProcess for BACKSPACE with the cursor behind a character
backspace(C) ==
    [C EXCEPT !.buffer = SubSeq(@, 1, C.cursor - 1) \o SubSeq(@, C.cursor + 1, Len(@)),
              !.cursor = @ - 1]

-----------------------------------------------------------------------------
(* The line editor: CLI._keyPressed, CLI._keyProcess, CLI.sendInput,       *)
(* CLI.getInput, CLI.pause and CLI.resume.  A handler works on X, the CLI  *)
(* with the commands as the matcher left them and the number of times each *)
(* callback ran.  A key is a character or the name of a key of KEY.        *)

Handling(C, cmds) == [cli |-> C, commands |-> cmds, calls |-> [k \in 1..Len(cmds) |-> 0]]

\* CLI._makeNextPromptActive
makeNextPromptActive(C) ==
    IF C.awaitingInputsQueue = <<>> THEN C
    ELSE IF C.awaitingInputsQueue[1].isActive THEN C
    ELSE [C EXCEPT !.awaitingInputsQueue[1] =
                       [@ EXCEPT !.cacheBuffer = C.buffer, !.cacheCursor = C.cursor,
                                 !.cachePrompt = C.prompt, !.cacheHint = C.hint,
                                 !.cacheAutocomplete = C.autocomplete, !.isActive = TRUE],
                   !.buffer = <<>>, !.cursor = 0,
                   !.autocomplete = NoAutocomplete, !.hint = NoHint,
                   !.prompt = C.awaitingInputsQueue[1].prompt]

\* CLI.getInput(prompt): the promise is numbered in the order of the calls
getInput(C, prompt) ==
    makeNextPromptActive(
        [C EXCEPT !.asked = @ + 1,
                  !.awaitingInputsQueue =
                      Append(@, [id |-> C.asked + 1, prompt |-> prompt, cacheBuffer |-> <<>>,
                                 cacheCursor |-> 0, cachePrompt |-> <<>>, cacheHint |-> NoHint,
                                 cacheAutocomplete |-> NoAutocomplete, isActive |-> FALSE])])

\* The prompt a callback asks with
AskPrompt == <<"?">>

\* result.command.callback(result) for command k: the callback of a command
\* in `asking` calls getInput, the callback of one in `pausing` calls pause
callback(C, k) ==
    LET C1 == IF k \in C.asking THEN getInput(C, AskPrompt) ELSE C
    IN IF k \in C.pausing THEN [C1 EXCEPT !.isResumed = FALSE] ELSE C1

\* The default of the input event with no prompt awaiting: r is what
\* parseInput returned or threw
commandSent(X, r) ==
    [cli |-> IF r.outcome.kind = "resolved" THEN callback(X.cli, r.outcome.command) ELSE X.cli,
     commands |-> r.commands,
     calls |-> [k \in 1..Len(X.calls) |->
                   X.calls[k] + callbackRuns(r.commands, r.outcome, FALSE)[k]]]

\* The same with the buffer and the cursor left as the Return key cleared them
promptAnswered_keepsLine(C, input) ==
    LET awaitingInput == Head(C.awaitingInputsQueue)
    IN [C EXCEPT !.awaitingInputsQueue = Tail(@),
                 !.answered = Append(@, [id |-> awaitingInput.id, input |-> input]),
                 !.hint = awaitingInput.cacheHint,
                 !.autocomplete = awaitingInput.cacheAutocomplete,
                 !.prompt = awaitingInput.cachePrompt]

\* The default of the input event with an active prompt at the head of the
\* queue: the promise is resolved with the line and the cached values return
promptAnswered(C, input) ==
    LET awaitingInput == Head(C.awaitingInputsQueue)
    IN [C EXCEPT !.awaitingInputsQueue = Tail(@),
                 !.answered = Append(@, [id |-> awaitingInput.id, input |-> input]),
                 !.buffer = awaitingInput.cacheBuffer,
                 !.cursor = awaitingInput.cacheCursor,
                 !.hint = awaitingInput.cacheHint,
                 !.autocomplete = awaitingInput.cacheAutocomplete,
                 !.prompt = awaitingInput.cachePrompt]

\* The same with the line parsed and dispatched although a prompt is awaiting
sendInput_parsesAlways(X, input) ==
    LET Y == commandSent(X, parseInput(X.commands, input))
    IN [Y EXCEPT !.cli = makeNextPromptActive(@)]

\* The callbacks of the input event, then _makeNextPromptActive
inputSent(X, input) ==
    IF X.cli.awaitingInputsQueue = <<>>
    THEN commandSent(X, parseInput(X.commands, input))
    ELSE IF X.cli.awaitingInputsQueue[1].isActive
         THEN [X EXCEPT !.cli = promptAnswered(@, input)]
         ELSE X

\* CLI.sendInput(input)
sendInput(X, input) == [inputSent(X, input) EXCEPT !.cli = makeNextPromptActive(@)]

\* The keypress handler: with a prompt awaiting it returns at once
keypressed(X) ==
    IF X.cli.awaitingInputsQueue # <<>> THEN X
    ELSE LET h == onKeypress(X.cli, X.commands)
         IN [X EXCEPT !.cli = h.cli, !.commands = h.commands]

\* \w of a regular expression, for the characters of the model
IsWordChar(c) == c # " "

\* [...buffer.matchAll(/\b/g)].map(e => e.index): the places where a word
\* starts or ends
wordJumps(buffer) ==
    {e \in 0..Len(buffer) :
        (e >= 1 /\ IsWordChar(buffer[e])) # (e < Len(buffer) /\ IsWordChar(buffer[e + 1]))}

Max(S) == CHOOSE x \in S : \A y \in S : y <= x
Min(S) == CHOOSE x \in S : \A y \in S : x <= y

\* jumps.reverse().find(e => e < cursor && cursor - e != 1) || 0
jumpLeft(C) ==
    LET found == {e \in wordJumps(C.buffer) : e < C.cursor /\ C.cursor - e # 1}
    IN IF found = {} THEN 0 ELSE Max(found)

\* jumps.find(e => e > cursor && e - cursor != 1) || buffer.length
jumpRight(C) ==
    LET found == {e \in wordJumps(C.buffer) : e > C.cursor /\ e - C.cursor # 1}
    IN IF found = {} THEN Len(C.buffer) ELSE Min(found)

\* buffer.substring(from, to) with 0-based bounds inside the buffer
substring(buffer, from, to) == SubSeq(buffer, from + 1, to)

\* RETURN that adds every line to the history
historyPush_always(C) ==
    [C EXCEPT !.history = Append(@, C.buffer), !.pointer = Len(C.history) + 1]

\* RETURN: the line joins the history unless it is empty or the last entry
historyPush(C) ==
    IF C.buffer # <<>> /\ (C.history = <<>> \/ C.buffer # C.history[Len(C.history)])
    THEN [C EXCEPT !.history = Append(@, C.buffer), !.pointer = Len(C.history) + 1]
    ELSE [C EXCEPT !.pointer = Len(C.history)]

\* ARROW_LEFT that does not stop at the start of the line
arrowLeft_unclamped(C) == [C EXCEPT !.cursor = @ - 1]

arrowLeft(C) == [C EXCEPT !.cursor = IF @ - 1 < 0 THEN 0 ELSE @ - 1]

\* The editing keys of _keyProcess but RETURN and the keys that insert
editKey(C, key) ==
    IF key = "ARROW_UP"
    THEN LET C1 == IF C.pointer = Len(C.history) THEN [C EXCEPT !.current = C.buffer] ELSE C
         IN IF C1.pointer # 0
            THEN [C1 EXCEPT !.pointer = @ - 1,
                            !.buffer = C1.history[C1.pointer],
                            !.cursor = Len(C1.history[C1.pointer])]
            ELSE C1
    ELSE IF key = "ARROW_DOWN"
    THEN IF C.pointer < Len(C.history)
         THEN LET line == IF C.pointer + 1 < Len(C.history) /\ C.history[C.pointer + 2] # <<>>
                          THEN C.history[C.pointer + 2] ELSE C.current
              IN [C EXCEPT !.pointer = @ + 1, !.buffer = line, !.cursor = Len(line)]
         ELSE C
    ELSE IF key = "ARROW_LEFT" THEN arrowLeft(C)
    ELSE IF key = "ARROW_RIGHT"
    THEN [C EXCEPT !.cursor = IF @ + 1 > Len(C.buffer) THEN Len(C.buffer) ELSE @ + 1]
    ELSE IF key = "CTRL_ARROW_LEFT" THEN [C EXCEPT !.cursor = jumpLeft(C)]
    ELSE IF key = "CTRL_ARROW_RIGHT" THEN [C EXCEPT !.cursor = jumpRight(C)]
    ELSE IF key = "BACKSPACE" THEN backspace(C)
    ELSE IF key = "DELETE"
    THEN [C EXCEPT !.buffer = substring(@, 0, C.cursor) \o substring(@, C.cursor + 1, Len(@))]
    ELSE IF key = "CTRL_BACKSPACE"
    THEN [C EXCEPT !.buffer = substring(@, 0, jumpLeft(C)) \o substring(@, C.cursor, Len(@)),
                   !.cursor = jumpLeft(C)]
    ELSE IF key = "CTRL_DELETE"
    THEN [C EXCEPT !.buffer = substring(@, 0, C.cursor) \o substring(@, jumpRight(C), Len(@))]
    ELSE C

EditKeys ==
    {"ARROW_UP", "ARROW_DOWN", "ARROW_LEFT", "ARROW_RIGHT", "CTRL_ARROW_LEFT",
     "CTRL_ARROW_RIGHT", "BACKSPACE", "DELETE", "CTRL_BACKSPACE", "CTRL_DELETE"}

\* The keyinput event and its default: the tab key becomes the completion or
\* is dropped, any other key is inserted at the cursor
keyInput(C, key) ==
    IF key = "TAB" THEN insertKey(tabKey(C).cli, tabKey(C).inserted)
    ELSE insertKey(C, <<key>>)

\* CLI._keyProcess(key), the keypress event included
keyProcess(X, key) ==
    LET P == [X EXCEPT !.cli.processed = Append(@, key)]
        C == P.cli
    IN IF key = "BACKSPACE" /\ C.cursor = 0 THEN P
       ELSE IF key \in EditKeys THEN keypressed([P EXCEPT !.cli = editKey(C, key)])
       ELSE IF key = "RETURN"
       THEN keypressed(sendInput([P EXCEPT !.cli = [historyPush(C) EXCEPT !.buffer = <<>>,
                                                                         !.cursor = 0]],
                                 C.buffer))
       ELSE keypressed([P EXCEPT !.cli = keyInput(C, key)])

\* key.substring(i + 1) that keeps the whole chunk
remainder_whole(key, i) == key

\* key.substring(i + 1), i counted from 1 here
remainder(key, i) == SubSeq(key, i + 1, Len(key))

\* The loop of _keyPressed over the characters of a chunk, from character i:
\* once a key has paused the CLI the rest of the chunk is buffered
RECURSIVE keyLoop(_, _, _)
keyLoop(X, key, i) ==
    IF i > Len(key) THEN X
    ELSE LET Y == keyProcess(X, key[i])
         IN IF ~Y.cli.isResumed
            THEN [Y EXCEPT !.cli.keystrokeBuffer = Append(@, remainder(key, i))]
            ELSE keyLoop(Y, key, i + 1)

\* CLI._keyPressed(key) for a chunk that is no SIGINT: an escape sequence is
\* one key, any other chunk is processed character by character
keyPressed(X, key) ==
    IF ~X.cli.isResumed THEN [X EXCEPT !.cli.keystrokeBuffer = Append(@, key)]
    ELSE keyLoop(X, key, 1)

\* The loop of _processKeystrokeBuffer over the keystrokes it took
RECURSIVE keystrokeLoop(_, _)
keystrokeLoop(X, keystrokes) ==
    IF keystrokes = <<>> THEN X
    ELSE keystrokeLoop(keyPressed(X, Head(keystrokes)), Tail(keystrokes))

\* CLI.resume(): _processKeystrokeBuffer is not running when a timer calls it
resume(X) ==
    keystrokeLoop([X EXCEPT !.cli.isResumed = TRUE, !.cli.keystrokeBuffer = <<>>],
                  X.cli.keystrokeBuffer)

-----------------------------------------------------------------------------
(* Bounds and the inputs drawn within them.                                *)

MaxCommands == 2    \* registered commands
MaxWords == 3       \* words after the command name in a submitted line
MaxArgs == 3        \* length of an argv handed to the matcher
MaxSegments == 2    \* segments of a scheme of mandatory segments
MaxOptionals == 2   \* consecutive optional groups of a scheme
MaxSteps == 60      \* iterations of the matcher's loop in one call
MaxBuffer == 3      \* characters of the input buffer
MaxSuspended == 1   \* keypress handlers suspended at their await
MaxLine == 2        \* characters of the line being edited
MaxHistory == 1     \* lines of the history
MaxPrompts == 2     \* calls of getInput
MaxAwaiting == 1    \* prompts awaiting while the line is edited
MaxKeys == 5        \* keys that stdin delivers
MaxChunk == 3       \* keys of one chunk of stdin

SeqsUpTo(T, n) == UNION {[1..m -> T] : m \in 0..n}

w_a == <<"a">>
w_b == <<"b">>
w_c == <<"c">>
w_ab == <<"a", "b">>
w_n == <<"n">>
w_s == <<"s">>
w_x == <<"x">>
w_v == <<"v">>
w_ip == <<"i", "p">>
w_5 == <<"5">>
w_set == <<"s", "e", "t">>
w_ban == <<"b", "a", "n">>
w_cmd == <<"c", "m", "d">>
w_addr == <<"1", ".", "2", ".", "3", ".", "4">>
w_true == <<"t", "r", "u", "e">>

\* Segments the schemes are made of
MandatoryAtoms == {Keyword(w_a), Keyword(w_ab), Variable(w_n, "number"), Variable(w_s, "string")}
OptionalGroups == {Optional(<<Keyword(w_a)>>), Optional(<<Variable(w_n, "number")>>),
                   Optional(<<Keyword(w_a), Keyword(w_b)>>)}
Followers == {<<>>, <<Keyword(w_ab)>>}

MandatorySchemes == SeqsUpTo(MandatoryAtoms, MaxSegments)
OptionalSchemes == {gs \o f : gs \in SeqsUpTo(OptionalGroups, MaxOptionals), f \in Followers}

\* A union in a mandatory position, with and without neighbours
Unions == {Union(<<<<Keyword(w_a)>>, <<Keyword(w_b)>>>>),
           Union(<<<<Keyword(w_a), Keyword(w_b)>>, <<Variable(w_n, "number")>>>>)}
BeforeUnion == {<<>>, <<Keyword(w_ab)>>, <<Variable(w_n, "number")>>, <<Optional(<<Keyword(w_ab)>>)>>}
AfterUnion == {<<>>, <<Keyword(w_ab)>>, <<Optional(<<Keyword(w_ab)>>)>>}
UnionSchemes == {pre \o <<u>> \o post : pre \in BeforeUnion, u \in Unions, post \in AfterUnion}

\* Enum, provider and rest variables
w_push == <<"p", "u", "s", "h">>
w_pull == <<"p", "u", "l", "l">>
w_pause == <<"p", "a", "u", "s", "e">>
VariableSchemes ==
    {<<EnumVariable(w_v, <<w_push, w_pull, w_pause>>)>>,
     <<EnumVariable(w_v, <<w_a, w_ab>>)>>,
     <<EnumVariable(w_v, <<w_push, w_pull, w_push>>), Keyword(w_a)>>,
     <<ProviderVariable(w_v, <<w_push, w_pull>>), Keyword(w_a)>>,
     <<RestProviderVariable(w_v, <<w_push, w_pull>>)>>,
     <<Optional(<<Keyword(w_a)>>), Optional(<<Keyword(w_a)>>),
       ProviderVariable(w_v, <<w_push, w_pull>>)>>,
     <<RestVariable(w_x, "")>>,
     <<RestVariable(w_x, "string")>>,
     <<Keyword(w_a), RestVariable(w_x, "number")>>,
     <<Variable(w_x, "")>>,
     <<Variable(w_x, "flag"), Variable(w_n, "boolean")>>}

SchemeCatalog == MandatorySchemes \cup OptionalSchemes \cup UnionSchemes \cup VariableSchemes

\* The schemes whose graphs the loop specification walks: rest variables
\* (self-loops), nested and empty optional groups, unions with optional
\* groups and rest variables in their branches and around them
LoopSchemes ==
    {<<RestVariable(w_x, "string")>>,
     <<Keyword(w_a), RestVariable(w_n, "number")>>,
     <<Optional(<<RestVariable(w_x, "string")>>), Optional(<<Keyword(w_a)>>)>>,
     <<Optional(<<Keyword(w_a), Optional(<<Keyword(w_b), Optional(<<Keyword(w_a)>>)>>)>>)>>,
     <<Optional(<<>>), Optional(<<Optional(<<>>)>>), Keyword(w_a)>>,
     <<Union(<<<<Optional(<<Keyword(w_a)>>)>>, <<Optional(<<Keyword(w_b)>>)>>, <<>>>>)>>,
     <<Union(<<<<Keyword(w_a)>>, <<RestVariable(w_x, "string")>>>>), Optional(<<Keyword(w_a)>>)>>,
     <<Optional(<<Union(<<<<Keyword(w_a)>>, <<Union(<<<<Keyword(w_b)>>, <<Keyword(w_a)>>>>)>>>>)>>),
       RestProviderVariable(w_v, <<w_a, w_b>>)>>,
     <<Optional(<<Keyword(w_a)>>), Optional(<<Keyword(w_a)>>), Optional(<<Keyword(w_a)>>)>>}

\* The leaf segments of a scheme, nested ones included
RECURSIVE leaves(_)
leaves(segments) ==
    UNION {IF segments[i].cls = "optional" THEN leaves(segments[i].segments)
           ELSE IF segments[i].cls = "union"
                THEN UNION {leaves(segments[i].subSegments[b]) :
                               b \in 1..Len(segments[i].subSegments)}
                ELSE {segments[i]} : i \in 1..Len(segments)}

\* Tokens that a segment accepts in full or in part, and the empty token
prefixes(names) == names \cup {SubSeq(n, 1, IF Len(n) < 2 THEN Len(n) ELSE 2) : n \in names}
tokensOf(segment) ==
    IF segment.cls = "keyword" THEN {segment.name, SubSeq(segment.name, 1, Len(segment.name) - 1)}
    ELSE prefixes({segment.enum[i] : i \in 1..Len(segment.enum)})
         \cup prefixes({segment.provider[i] : i \in 1..Len(segment.provider)})
         \cup (IF segment.type = "number" THEN {w_5} ELSE {})
         \cup (IF segment.type = "boolean" THEN {w_true} ELSE {})
         \cup (IF segment.type = "flag" THEN {segment.name} ELSE {})
         \cup (IF segment.type \in {"string", "any", ""} THEN {w_x} ELSE {})

TokensOf(scheme) == {<<>>} \cup UNION {tokensOf(s) : s \in leaves(scheme)}

\* The tokens and the variables the type rules are applied to
w_false == <<"f", "a", "l", "s", "e">>
w_pi == <<"3", ".", "1", "4">>
w_hex == <<"0", "x", "1", "0">>
ValueTokens ==
    {<<>>, w_true, w_false, <<"t", "r", "u">>, <<"T", "r", "u", "e">>, <<"1">>, <<"0">>,
     w_5, w_pi, w_hex, <<"0", "x">>, <<"5", "a">>, <<"0", "5">>, <<".", "5">>, <<"5", ".">>,
     <<".">>, w_addr, w_a, w_x, w_n, <<"x", "x">>}
ValueSegments ==
    {Variable(w_x, type) : type \in {"number", "boolean", "flag", "string", "any", ""}}
    \cup {Variable(w_n, "flag")}

\* The commands the shell constructs: a name and a scheme each; the last five
\* hold a segment, or a name, that cannot be constructed
CommandRequest(name, scheme) == [name |-> name, scheme |-> scheme]
CommandRequests ==
    {CommandRequest(w_set, <<Variable(w_v, "number")>>),
     CommandRequest(w_set, <<Variable(w_v, "string")>>),
     CommandRequest(w_set, <<EnumVariable(w_v, <<w_5, w_a>>)>>),
     CommandRequest(w_set, <<ProviderVariable(w_v, <<w_5>>)>>),
     CommandRequest(w_set, <<Keyword(w_a)>>),
     CommandRequest(w_ban, <<Variable(w_ip, "string")>>),
     CommandRequest(w_cmd, <<RestVariable(w_x, "")>>),
     CommandRequest(w_cmd, <<RestVariable(w_x, "string")>>),
     CommandRequest(w_cmd, <<Union(<<<<Keyword(w_a)>>, <<Keyword(w_5)>>>>),
                             Optional(<<Keyword(w_a)>>)>>),
     CommandRequest(<<>>, <<Variable(w_v, "number")>>),
     CommandRequest(w_set, <<Keyword(<<>>)>>),
     CommandRequest(w_set, <<Variable(<<>>, "string")>>),
     CommandRequest(w_set, <<Variable(w_v, "int")>>),
     CommandRequest(w_set, <<Optional(<<Keyword(w_a), Variable(w_v, "int")>>)>>)}

\* The commands that can be constructed
CommandCatalog ==
    {Command(r.name, r.scheme) :
        r \in {q \in CommandRequests : ~anyThrows(<<KeywordSegment(q.name)>> \o q.scheme)}}

\* The commands of the resolver specification: stop [force] as the server
\* registers it, a scheme that names two variables alike, a scheme that takes
\* one token along two paths, a union of two branches that can both be
\* skipped, and two commands that one line spells
w_stop == <<"s", "t", "o", "p">>
w_force == <<"f", "o", "r", "c", "e">>
ResolverRequests ==
    {CommandRequest(w_stop, <<Optional(<<Variable(w_force, "flag")>>)>>),
     CommandRequest(w_set, <<Variable(w_v, "number"), Variable(w_v, "string")>>),
     CommandRequest(w_set, <<Keyword(w_a), Variable(w_v, "number")>>),
     CommandRequest(w_cmd, <<Optional(<<Variable(w_a, "string")>>),
                             Optional(<<Variable(w_b, "string")>>)>>),
     CommandRequest(w_cmd, <<Union(<<<<Optional(<<Keyword(w_a)>>)>>,
                                     <<Optional(<<Keyword(w_b)>>)>>>>)>>),
     CommandRequest(w_stop, <<RestVariable(w_x, "string")>>)}

\* The registries of the resolver specification: one or two of these commands
Registries ==
    {<<Command(r.name, r.scheme)>> : r \in ResolverRequests}
    \cup {<<Command(p[1].name, p[1].scheme), Command(p[2].name, p[2].scheme)>> :
              p \in {x \in ResolverRequests \X ResolverRequests : x[1] # x[2]}}

\* The registries of the keypress specification, each with the commands that
\* have a preview listener: a command of the shape of the server's eval (a
\* rest string variable, with a preview listener), two commands that one
\* line spells with equal scores, a keyword followed by an optional enum
\* variable next to a command with a flag, and a command with a number
KeyRegistry(requests, listeners) ==
    [commands |-> [k \in 1..Len(requests) |-> Command(requests[k].name, requests[k].scheme)],
     listeners |-> listeners]
KeyRegistries ==
    {KeyRegistry(<<CommandRequest(w_c, <<RestVariable(w_x, "string")>>)>>, {1}),
     KeyRegistry(<<CommandRequest(w_c, <<Variable(w_a, "string")>>),
                   CommandRequest(w_c, <<Variable(w_b, "string")>>)>>, {1}),
     KeyRegistry(<<CommandRequest(w_c, <<Keyword(w_a),
                                         Optional(<<EnumVariable(w_v, <<w_a, w_ab>>)>>)>>),
                   CommandRequest(w_a, <<Optional(<<Variable(w_c, "flag")>>)>>)>>, {2}),
     KeyRegistry(<<CommandRequest(w_c, <<Variable(w_n, "number")>>)>>, {})}

\* The keys that insert themselves
KeyChars == {"c", " ", "a"}

\* words.join(" ")
RECURSIVE Line(_)
Line(words) ==
    IF words = <<>> THEN <<>>
    ELSE IF Len(words) = 1 THEN words[1]
    ELSE Head(words) \o <<" ">> \o Line(Tail(words))

\* The lines that are submitted: a command name and up to MaxWords words,
\* a name and an address, a line ending in a space, the empty line
CommandNames == {w_set, w_ban, w_cmd}
InputLines ==
    {Line(<<name>> \o ws) : name \in CommandNames, ws \in SeqsUpTo({w_5, w_a}, MaxWords)}
    \cup {Line(<<name, w_addr>>) : name \in CommandNames}
    \cup {Line(<<name, <<>>>>) : name \in CommandNames}
    \cup {<<>>}

\* The lines submitted to the resolver specification
ResolverNames == {w_stop, w_set, w_cmd}
ResolverLines ==
    {Line(<<name>> \o ws) : name \in ResolverNames, ws \in SeqsUpTo({w_5, w_a, w_force}, MaxWords)}

-----------------------------------------------------------------------------
(* The state machine.                                                      *)

NoOutcome == Outcome("none", 0, NoVariables, <<>>, <<>>)

Init ==
    /\ commands = <<>>
    /\ tokens = <<>>
    /\ results = <<>>
    /\ outcome = NoOutcome
    /\ calls = <<>>
    /\ providerCalls = 0
    /\ loop = NoLoop
    /\ cli = NewCLI

\* The matcher specification starts with one command compiled from a scheme
InitMatch ==
    /\ commands \in {<<Command(w_c, scheme)>> : scheme \in SchemeCatalog}
    /\ tokens = <<>>
    /\ results = <<>>
    /\ outcome = NoOutcome
    /\ calls = <<>>
    /\ providerCalls = 0
    /\ loop = NoLoop
    /\ cli = NewCLI

\* A handler runs to its end before the next one starts; what it returned is
\* kept for inspection until it is dropped (nothing refers to it any more)
Idle == outcome.kind = "none"

\* GraphGenerator.processInput(argv, cmd.graph) on the graph of command k
ProcessInput(k, argv) ==
    /\ Idle
    /\ \E r \in {processInput(argv, commands[k].nodes, commands[k].graph)} :
          /\ tokens' = argv
          /\ results' = matchesOf(r, k)
          /\ commands' = [commands EXCEPT ![k].nodes = r.nodes]
          /\ providerCalls' = r.providerCalls
    /\ outcome' = Outcome("matched", 0, NoVariables, <<>>, <<>>)
    /\ UNCHANGED <<calls, loop, cli>>

\* CLI.registerCommand(new Command(name, scheme, callback))
RegisterCommand(c) ==
    /\ Idle
    /\ Len(commands) < MaxCommands
    /\ commands' = Append(commands, c)
    /\ UNCHANGED <<tokens, results, outcome, calls, providerCalls, loop, cli>>

\* cli.registerCommand(new Command(name, scheme, callback)): a constructor that
\* throws ends the statement with an Error and nothing is registered
NewCommand(name, scheme) ==
    IF anyThrows(scheme) \/ constructorThrows(KeywordSegment(name))
    THEN /\ Idle
         /\ outcome' = Outcome("Error", 0, NoVariables, <<>>, <<>>)
         /\ calls' = [k \in 1..Len(commands) |-> 0]
         /\ UNCHANGED <<commands, tokens, results, providerCalls, loop, cli>>
    ELSE RegisterCommand(Command(name, scheme))

\* CLI.sendInput(input) with no getInput prompt pending: the input event is
\* dispatched; its default parses the line, dispatches the command event,
\* whose default runs the command's callback; a thrown CommandError is
\* dispatched as unknownCommand or error
SendInput(input, inputPrevented, commandPrevented) ==
    /\ Idle
    /\ UNCHANGED <<loop, cli>>
    /\ IF dispatchEvent(inputPrevented)
       THEN \E r \in {parseInput(commands, input)} :
               /\ commands' = r.commands
               /\ tokens' = r.argv
               /\ results' = r.matches
               /\ outcome' = r.outcome
               /\ providerCalls' = r.providerCalls
               /\ calls' = callbackRuns(commands, r.outcome, commandPrevented)
       ELSE /\ outcome' = Outcome("prevented", 0, NoVariables, <<>>, <<>>)
            /\ calls' = [k \in 1..Len(commands) |-> 0]
            /\ UNCHANGED <<commands, tokens, results, providerCalls>>

\* The handler has returned: its MatchResults and its result are dropped
Return ==
    /\ ~Idle
    /\ tokens' = <<>>
    /\ results' = <<>>
    /\ outcome' = NoOutcome
    /\ calls' = <<>>
    /\ providerCalls' = 0
    /\ UNCHANGED <<commands, loop, cli>>

\* The specification of the type rules starts with one token
InitValue ==
    /\ commands = <<>>
    /\ tokens \in {<<token>> : token \in ValueTokens}
    /\ results = <<>>
    /\ outcome = NoOutcome
    /\ calls = <<>>
    /\ providerCalls = 0
    /\ loop = NoLoop
    /\ cli = NewCLI

\* VariableSegment.compareType(value, segment) and
\* VariableSegment.parseValue(value, segment) on the token
CompareAndParse(segment) ==
    /\ Idle
    /\ results' = <<[segment |-> segment,
                     accepted |-> compareType(tokens[1], segment),
                     value |-> parseValue(tokens[1], segment)]>>
    /\ outcome' = Outcome("value", 0, NoVariables, <<>>, <<>>)
    /\ UNCHANGED <<commands, tokens, calls, providerCalls, loop, cli>>

NextValue == \E segment \in ValueSegments : CompareAndParse(segment)

SpecValue == InitValue /\ [][NextValue]_vars

NextMatch ==
    \/ \E k \in 1..Len(commands) :
          \E argv \in SeqsUpTo(TokensOf(commands[k].scheme), MaxArgs) : ProcessInput(k, argv)
    \/ Return

SpecMatch == InitMatch /\ [][NextMatch]_vars

\* The loop specification starts with one command compiled from a scheme
InitLoop ==
    /\ commands \in {<<Command(w_c, scheme)>> : scheme \in LoopSchemes}
    /\ tokens = <<>>
    /\ results = <<>>
    /\ outcome = NoOutcome
    /\ calls = <<>>
    /\ providerCalls = 0
    /\ loop = NoLoop
    /\ cli = NewCLI

\* GraphGenerator.processInput(argv, graph) is entered for command k
BeginLoop(k, argv) ==
    /\ Idle
    /\ ~loop.running
    /\ tokens' = argv
    /\ loop' = [startOf(commands[k].nodes, commands[k].graph) EXCEPT !.command = k]
    /\ UNCHANGED <<commands, results, outcome, calls, providerCalls, cli>>

\* One iteration of while(stack.length > 0)
Iterate ==
    /\ loop.running
    /\ loop.stack # <<>>
    /\ loop.steps < MaxSteps
    /\ loop' = [processStep(loop, tokens) EXCEPT !.steps = @ + 1]
    /\ UNCHANGED <<commands, tokens, results, outcome, calls, providerCalls, cli>>

\* The stack is empty: return [...new Set(matches)]
EndLoop ==
    /\ loop.running
    /\ loop.stack = <<>>
    /\ results' = matchesOf([loop EXCEPT !.matches = dedupe(@)], loop.command)
    /\ commands' = [commands EXCEPT ![loop.command].nodes = loop.nodes]
    /\ providerCalls' = loop.providerCalls
    /\ outcome' = Outcome("matched", 0, NoVariables, <<>>, <<>>)
    /\ loop' = NoLoop
    /\ UNCHANGED <<tokens, calls, cli>>

NextLoop ==
    \/ \E k \in 1..Len(commands) :
          \E argv \in SeqsUpTo(TokensOf(commands[k].scheme), MaxArgs) : BeginLoop(k, argv)
    \/ Iterate
    \/ EndLoop
    \/ Return

\* The loop runs on until its condition fails, and then the call returns
SpecLoop == InitLoop /\ [][NextLoop]_vars /\ WF_vars(Iterate) /\ WF_vars(EndLoop)

\* The keypress specification starts with the commands registered, the
\* preview listeners added, and CLI.begin done
InitKeys ==
    /\ \E registry \in KeyRegistries :
          /\ commands = registry.commands
          /\ cli = [NewCLI EXCEPT !.listeners = registry.listeners]
    /\ tokens = <<>>
    /\ results = <<>>
    /\ outcome = NoOutcome
    /\ calls = <<>>
    /\ providerCalls = 0
    /\ loop = NoLoop

\* The keypress event is dispatched for the CLI C that _keyProcess left: the
\* handler runs up to its first await or its return
Keypress(C) ==
    /\ \E h \in {onKeypress(C, commands)} :
          /\ Len(h.cli.suspended) <= MaxSuspended
          /\ cli' = h.cli
          /\ commands' = h.commands
    /\ UNCHANGED <<tokens, results, outcome, calls, providerCalls, loop>>

\* _keyProcess(key) for a key that inserts itself
KeyInput(key) ==
    /\ Idle
    /\ Len(cli.buffer) < MaxBuffer
    /\ Keypress(insertKey(cli, <<key>>))

\* _keyProcess("\t"): the keyinput handler turns the key into the completion
TabKey ==
    /\ Idle
    /\ Len(cli.buffer) + Len(tabKey(cli).inserted) <= MaxBuffer
    /\ Keypress(insertKey(tabKey(cli).cli, tabKey(cli).inserted))

\* _keyProcess(BACKSPACE): with the cursor at 0 it returns before the
\* keypress event
BackspaceKey ==
    /\ Idle
    /\ cli.cursor > 0
    /\ Keypress(backspace(cli))

\* _keyProcess(RETURN): the buffer is cleared, the line is sent, and the
\* keypress handler runs on the empty buffer
ReturnKey ==
    /\ Idle
    /\ \E r \in {parseInput(commands, cli.buffer)} :
          /\ commands' = r.commands
          /\ tokens' = r.argv
          /\ results' = r.matches
          /\ outcome' = r.outcome
          /\ providerCalls' = r.providerCalls
          /\ calls' = callbackRuns(commands, r.outcome, FALSE)
          /\ cli' = onKeypress([cli EXCEPT !.buffer = <<>>, !.cursor = 0], r.commands).cli
    /\ UNCHANGED loop

\* The await of a suspended handler is over: its listener has produced a
\* preview or none, and the handler goes on
PreviewArrives(h, produced) ==
    /\ Idle
    /\ h \in 1..Len(cli.suspended)
    /\ cli' = afterPreview(cli, h, produced)
    /\ UNCHANGED <<commands, tokens, results, outcome, calls, providerCalls, loop>>

NextKeys ==
    \/ \E key \in KeyChars : KeyInput(key)
    \/ TabKey
    \/ BackspaceKey
    \/ ReturnKey
    \/ \E h \in 1..MaxSuspended, produced \in BOOLEAN : PreviewArrives(h, produced)
    \/ Return

SpecKeys == InitKeys /\ [][NextKeys]_vars

\* The prompt specification starts with one command without segments whose
\* callback calls getInput, as the server's kill does, and CLI.begin done
InitPrompt ==
    /\ commands = <<Command(w_c, <<>>)>>
    /\ cli = [NewCLI EXCEPT !.asking = {1}]
    /\ tokens = <<>>
    /\ results = <<>>
    /\ outcome = NoOutcome
    /\ calls = <<0>>
    /\ providerCalls = 0
    /\ loop = NoLoop

\* What the first prompt of a queue cached when it became active
firstCached(C, D) ==
    IF C.awaitingInputsQueue = <<>> /\ D.awaitingInputsQueue # <<>>
    THEN [D EXCEPT !.first = [buffer |-> D.awaitingInputsQueue[1].cacheBuffer,
                              cursor |-> D.awaitingInputsQueue[1].cacheCursor,
                              prompt |-> D.awaitingInputsQueue[1].cachePrompt,
                              hint |-> D.awaitingInputsQueue[1].cacheHint,
                              autocomplete |-> D.awaitingInputsQueue[1].cacheAutocomplete]]
    ELSE D

\* A handler of the prompt specification has run from the CLI C and left X;
\* `processed` holds the keys of the last handler only
Handled(C, X) ==
    /\ Len(X.cli.buffer) <= MaxLine
    /\ Len(X.cli.history) <= MaxHistory
    /\ X.cli.asked <= MaxPrompts
    /\ cli' = firstCached(C, X.cli)
    /\ commands' = X.commands
    /\ calls' = X.calls
    /\ UNCHANGED <<tokens, results, outcome, providerCalls, loop>>

\* stdin delivers one key to a CLI that is not paused
KeyEvent(key) ==
    \E X \in {keyPressed(Handling([cli EXCEPT !.processed = <<>>], commands), <<key>>)} :
        Handled(cli, X)

\* Some code other than a command callback calls cli.getInput
GetInput ==
    \E X \in {[Handling(cli, commands) EXCEPT
                  !.cli = getInput([cli EXCEPT !.processed = <<>>], AskPrompt)]} :
        Handled(cli, X)

\* Some code other than the Return key calls cli.sendInput(input)
SendLine(input) ==
    \E X \in {sendInput(Handling([cli EXCEPT !.processed = <<>>], commands), input)} :
        Handled(cli, X)

\* The keys of the prompt specification
PromptKeys == {"c", "RETURN"}

NextPrompt ==
    \/ \E key \in PromptKeys : KeyEvent(key)
    \/ GetInput
    \/ \E input \in {<<>>, w_c} : SendLine(input)

SpecPrompt == InitPrompt /\ [][NextPrompt]_vars

\* The editor specification starts with one command without segments, named
\* cc, whose callback calls getInput, and CLI.begin done
w_cc == <<"c", "c">>
InitEdit ==
    /\ commands = <<Command(w_cc, <<>>)>>
    /\ cli = [NewCLI EXCEPT !.asking = {1}]
    /\ tokens = <<>>
    /\ results = <<>>
    /\ outcome = NoOutcome
    /\ calls = <<0>>
    /\ providerCalls = 0
    /\ loop = NoLoop

\* The editor specification does not follow the promises: the count of the
\* getInput calls, the answers and the first cache are dropped
Unfollowed(C) == [C EXCEPT !.asked = 0, !.answered = <<>>, !.first = NewCLI.first]

\* A handler of the editor specification has left X
Edited(X) ==
    /\ Len(X.cli.buffer) <= MaxLine
    /\ Len(X.cli.history) <= MaxHistory
    /\ Len(X.cli.awaitingInputsQueue) <= MaxAwaiting
    /\ cli' = Unfollowed(X.cli)
    /\ commands' = X.commands
    /\ calls' = X.calls
    /\ UNCHANGED <<tokens, results, outcome, providerCalls, loop>>

\* stdin delivers one key to a CLI that is not paused
KeyStroke(key) ==
    \E X \in {keyPressed(Handling([cli EXCEPT !.processed = <<>>], commands), <<key>>)} :
        Edited(X)

\* Some code other than a command callback calls cli.getInput
Ask ==
    \E X \in {[Handling(cli, commands) EXCEPT
                  !.cli = getInput([cli EXCEPT !.processed = <<>>], AskPrompt)]} :
        Edited(X)

\* The keys of the editor specification
EditorKeys == {"c", "RETURN", "TAB"} \cup EditKeys

NextEdit ==
    \/ \E key \in EditorKeys : KeyStroke(key)
    \/ Ask

SpecEdit == InitEdit /\ [][NextEdit]_vars

\* The pause specification starts with one command without segments whose
\* callback pauses the CLI, as the server's sleep does, and CLI.begin done
InitPause ==
    /\ commands = <<Command(w_s, <<>>)>>
    /\ cli = [NewCLI EXCEPT !.pausing = {1}]
    /\ tokens = <<>>
    /\ results = <<>>
    /\ outcome = NoOutcome
    /\ calls = <<0>>
    /\ providerCalls = 0
    /\ loop = NoLoop

\* The chunks stdin delivers
PauseKeys == {"s", "a", "RETURN"}
Chunks == SeqsUpTo(PauseKeys, MaxChunk) \ {<<>>}

\* stdin delivers a chunk: _keyPressed(key)
KeyData(key) ==
    /\ Len(cli.arrived) + Len(key) <= MaxKeys
    /\ \E X \in {keyPressed(Handling([cli EXCEPT !.arrived = @ \o key], commands), key)} :
          /\ cli' = X.cli
          /\ commands' = X.commands
          /\ calls' = X.calls
    /\ UNCHANGED <<tokens, results, outcome, providerCalls, loop>>

\* The timer of the pausing callback calls cli.resume()
Resume ==
    /\ ~cli.isResumed
    /\ \E X \in {resume(Handling(cli, commands))} :
          /\ cli' = X.cli
          /\ commands' = X.commands
          /\ calls' = X.calls
    /\ UNCHANGED <<tokens, results, outcome, providerCalls, loop>>

NextPause ==
    \/ \E key \in Chunks : KeyData(key)
    \/ Resume

SpecPause == InitPause /\ [][NextPause]_vars

Next ==
    \/ \E r \in CommandRequests : NewCommand(r.name, r.scheme)
    \/ \E input \in InputLines :
          \E inputPrevented \in BOOLEAN, commandPrevented \in BOOLEAN :
              SendInput(input, inputPrevented, commandPrevented)
    \/ Return

Spec == Init /\ [][Next]_vars

\* The resolver specification starts with the commands registered
InitResolve ==
    /\ commands \in Registries
    /\ tokens = <<>>
    /\ results = <<>>
    /\ outcome = NoOutcome
    /\ calls = <<>>
    /\ providerCalls = 0
    /\ loop = NoLoop
    /\ cli = NewCLI

NextResolve ==
    \/ \E input \in ResolverLines :
          \E inputPrevented \in BOOLEAN, commandPrevented \in BOOLEAN :
              SendInput(input, inputPrevented, commandPrevented)
    \/ Return

SpecResolve == InitResolve /\ [][NextResolve]_vars

-----------------------------------------------------------------------------
(* Properties.                                                             *)

Matched == outcome.kind = "matched"

\* The scheme of the command a returned match belongs to
schemeOf(m) == commands[m.command].scheme

\* The segment a MatchedNode was matched against
segmentOf(m, i) == commands[m.command].nodes[m.nodes[i].node].segment

\* A token the segment's own rule accepts in full: the keyword's name, a token
\* of the variable's type, one of its enum candidates, the flag's name
FullyMatches(segment, token) ==
    IF segment.cls = "keyword" THEN token = segment.name
    ELSE \/ segment.type # "flag" /\ ~segment.hasEnum /\ ~segment.hasProvider
            /\ compareType(token, segment)
         \/ \E i \in 1..Len(segment.enum) : segment.enum[i] = token
         \/ \E i \in 1..Len(segment.provider) : segment.provider[i] = token
         \/ segment.type = "flag" /\ token = segment.name

Spells(segments, argv) ==
    /\ Len(argv) = Len(segments)
    /\ \A p \in 1..Len(segments) : FullyMatches(segments[p], argv[p])

OnlyMandatoryTyped(scheme) ==
    \A p \in 1..Len(scheme) :
        \/ scheme[p].cls = "keyword"
        \/ scheme[p].cls = "variable" /\ ~scheme[p].isRest /\ scheme[p].type # ""

\* C1: a command whose scheme holds only mandatory, non-rest keywords and
\* typed variables is invokable only for an argv with one token per segment
\* (the command name included), token i fully matching segment i.
C1_MandatoryConsumesExactly ==
    Matched =>
        \A i \in 1..Len(results) :
            (OnlyMandatoryTyped(schemeOf(results[i])) /\ results[i].isInvokable)
                => Spells(schemeOf(results[i]), tokens)

C1_Witness ==
    /\ Matched
    /\ \E i \in 1..Len(results) :
          /\ results[i].isInvokable
          /\ OnlyMandatoryTyped(schemeOf(results[i]))
          /\ Len(schemeOf(results[i])) = 3
          /\ schemeOf(results[i])[2].cls = "variable"
          /\ schemeOf(results[i])[3].cls = "keyword"

\* The segment sequences a scheme stands for: every optional group is left
\* out or put in as a whole, every union is replaced by one of its branches
RECURSIVE Expansions(_)
Alternatives(segment) ==
    IF segment.cls = "optional" THEN {<<>>} \cup Expansions(segment.segments)
    ELSE IF segment.cls = "union"
         THEN UNION {Expansions(segment.subSegments[b]) : b \in 1..Len(segment.subSegments)}
         ELSE {<<segment>>}
Expansions(segments) ==
    IF segments = <<>> THEN {<<>>}
    ELSE {h \o t : h \in Alternatives(Head(segments)), t \in Expansions(Tail(segments))}

\* The segment instances along a match, and the instances of a segment sequence
oidsOfMatch(m) == [i \in 1..Len(m.nodes) |-> segmentOf(m, i).oid]
oidsOf(segments) == [i \in 1..Len(segments) |-> segments[i].oid]

InvokableFor(k) == {i \in 1..Len(results) : results[i].command = k /\ results[i].isInvokable}

Simple(segment) ==
    \/ segment.cls = "keyword"
    \/ segment.cls = "variable" /\ ~segment.isRest /\ segment.type # ""

UnionPositions(scheme) == {p \in 1..Len(scheme) : scheme[p].cls = "union"}

\* The branches of the union at position p that a match took a node of
branchesUsed(m, p) ==
    {o[2] : o \in {oidsOfMatch(m)[i] : i \in {j \in 1..Len(m.nodes) :
                                               /\ Len(oidsOfMatch(m)[j]) = 3
                                               /\ oidsOfMatch(m)[j][1] = p}}}

\* C2: with a union in a mandatory position, whatever precedes or follows
\* it, every invokable match consumed the tokens of exactly one branch of the
\* union, and every input that supplies one branch in its place is accepted.
C2_UnionExactlyOneBranch ==
    Matched =>
        \A k \in 1..Len(commands) :
            LET scheme == commands[k].scheme IN
            UnionPositions(scheme) # {} =>
                /\ \A i \in InvokableFor(k) :
                      /\ \A p \in UnionPositions(scheme) :
                            Cardinality(branchesUsed(results[i], p)) = 1
                      /\ \E e \in Expansions(scheme) : oidsOfMatch(results[i]) = oidsOf(e)
                /\ (\E e \in Expansions(scheme) : Spells(e, tokens)) => InvokableFor(k) # {}

\* A scheme of keywords, typed variables and optional groups of those
FlatOptionalScheme(scheme) ==
    /\ \E p \in 1..Len(scheme) : scheme[p].cls = "optional"
    /\ \A p \in 1..Len(scheme) :
          \/ Simple(scheme[p])
          \/ /\ scheme[p].cls = "optional"
             /\ \A q \in 1..Len(scheme[p].segments) : Simple(scheme[p].segments[q])

\* C3: with consecutive optional groups that are trailing or followed by a
\* mandatory keyword or variable, the mandatory tokens together with the
\* tokens of any subset of the groups, in declared order, are invokable (the
\* empty subset too), and an invokable match holds every group whole or not at all.
C3_OptionalSubsets ==
    Matched =>
        \A k \in 1..Len(commands) :
            LET scheme == commands[k].scheme IN
            FlatOptionalScheme(scheme) =>
                /\ (\E e \in Expansions(scheme) : Spells(e, tokens)) => InvokableFor(k) # {}
                /\ \A i \in InvokableFor(k) :
                      \E e \in Expansions(scheme) : oidsOfMatch(results[i]) = oidsOf(e)

\* Two groups and a follower; the first group is skipped, the second supplied
C3_Witness ==
    /\ Matched
    /\ Len(commands[1].scheme) = 4
    /\ commands[1].scheme[2].cls = "optional"
    /\ commands[1].scheme[3].cls = "optional"
    /\ commands[1].scheme[4].cls = "keyword"
    /\ \E i \in InvokableFor(1) : oidsOfMatch(results[i]) = <<<<1>>, <<3, 1>>, <<4>>>>

\* The number of optional groups a scheme ends in
RECURSIVE trailingOptionals(_)
trailingOptionals(scheme) ==
    IF scheme = <<>> \/ scheme[Len(scheme)].cls # "optional" THEN 0
    ELSE 1 + trailingOptionals(SubSeq(scheme, 1, Len(scheme) - 1))

\* A scheme of keywords and typed variables that ends in flat optional groups
TrailingOptionalScheme(scheme) ==
    LET k == trailingOptionals(scheme) IN
    /\ \A p \in 1..(Len(scheme) - k) : Simple(scheme[p])
    /\ \A p \in (Len(scheme) - k + 1)..Len(scheme) :
          \A q \in 1..Len(scheme[p].segments) : Simple(scheme[p].segments[q])

nodeOfInstance(nodes, oid) ==
    CHOOSE n \in 1..Len(nodes) : nodes[n].segment.cls # "control" /\ nodes[n].segment.oid = oid

IsFinalEOF(segment) == segment.cls = "control" /\ ~segment.isBof /\ segment.id = 0

\* The paths of the graph from node n to the final EOF (a self-loop is not followed)
RECURSIVE pathsFrom(_, _)
pathsFrom(nodes, n) ==
    IF IsFinalEOF(nodes[n].segment) THEN {<<n>>}
    ELSE UNION {{<<n>> \o path : path \in pathsFrom(nodes, nodes[n].edges[e])} :
                  e \in {x \in 1..Len(nodes[n].edges) : nodes[n].edges[x] # n}}

\* The paths through the trailing optional chain: from the node of the last
\* mandatory segment to the final EOF
trailingPaths(c) ==
    pathsFrom(c.nodes, nodeOfInstance(c.nodes, <<Len(c.scheme) - trailingOptionals(c.scheme)>>))

RECURSIVE solidNodes(_, _)
solidNodes(nodes, path) ==
    IF path = <<>> THEN <<>>
    ELSE (IF nodes[Head(path)].segment.cls = "control" THEN <<>> ELSE <<Head(path)>>)
         \o solidNodes(nodes, Tail(path))

RECURSIVE pow2(_)
pow2(k) == IF k = 0 THEN 1 ELSE 2 * pow2(k - 1)

mandatoryNodes(c) ==
    [p \in 1..(Len(c.scheme) - trailingOptionals(c.scheme) - 1) |-> nodeOfInstance(c.nodes, <<p>>)]

\* The path is taken by an invokable match when the tokens spell its segments
pathReached(k, path) ==
    LET c == commands[k]
        ns == mandatoryNodes(c) \o solidNodes(c.nodes, path)
    IN Spells([i \in 1..Len(ns) |-> c.nodes[ns[i]].segment], tokens)
          => \E i \in InvokableFor(k) :
                [j \in 1..Len(results[i].nodes) |-> results[i].nodes[j].node] = ns

\* C4 as stated: a scheme ending in k trailing optional groups has exactly
\* k + 1 paths through the trailing chain to the final EOF, all reachable.
C4_TrailingPathsLinear ==
    Matched =>
        \A k \in 1..Len(commands) :
            TrailingOptionalScheme(commands[k].scheme) =>
                /\ Cardinality(trailingPaths(commands[k])) = trailingOptionals(commands[k].scheme) + 1
                /\ \A path \in trailingPaths(commands[k]) : pathReached(k, path)

\* C4 amended: a scheme ending in k trailing optional groups (each a plain
\* sequence of keywords and typed variables) has exactly 2^k paths through
\* the trailing chain to the final EOF, one per subset of the groups, and a
\* match follows each of them when the tokens spell it.
C4_TrailingPathsSubsets ==
    Matched =>
        \A k \in 1..Len(commands) :
            TrailingOptionalScheme(commands[k].scheme) =>
                /\ Cardinality(trailingPaths(commands[k])) = pow2(trailingOptionals(commands[k].scheme))
                /\ \A path \in trailingPaths(commands[k]) : pathReached(k, path)

\* Two trailing groups, the match skipped the first and took the second
C4_Witness ==
    /\ Matched
    /\ TrailingOptionalScheme(commands[1].scheme)
    /\ trailingOptionals(commands[1].scheme) = 2
    /\ \E i \in InvokableFor(1) : oidsOfMatch(results[i]) = <<<<1>>, <<3, 1>>>>

\* A non-empty line was submitted and parsed
Submitted == tokens # <<>> /\ outcome.kind # "matched"

\* A command whose scheme is its name and one rest variable without candidates
RestCommand(k) ==
    /\ Len(commands[k].scheme) = 2
    /\ commands[k].scheme[2].cls = "variable"
    /\ commands[k].scheme[2].isRest
    /\ ~commands[k].scheme[2].hasEnum
    /\ ~commands[k].scheme[2].hasProvider

OnlyCommandNamed(k) == \A j \in 1..Len(commands) : j # k => commands[j].name # commands[k].name

\* The value a token is bound as: 5 under the number type is the number 5,
\* a token under the string type or under no type is the token itself
Coerced(token, type) ==
    IF type = "number" /\ token = w_5 THEN NumberValue(5, 0) ELSE StringValue(token)

\* C5: a line that is the name of a command and N >= 1 non-empty tokens that the
\* command's rest variable x accepts (any token when x has no type) resolves
\* to the command and binds x to the list of the N values in input order.
C5_RestBindsEveryToken ==
    Submitted =>
        \A k \in 1..Len(commands) :
            LET x == commands[k].scheme[2]
            IN (/\ RestCommand(k)
                /\ OnlyCommandNamed(k)
                /\ Len(tokens) >= 2
                /\ tokens[1] = commands[k].name
                /\ \A p \in 2..Len(tokens) : tokens[p] # <<>> /\ compareType(tokens[p], x))
               => /\ outcome.kind = "resolved"
                  /\ outcome.command = k
                  /\ outcome.variables =
                        [n \in {x.name} |->
                            Array([q \in 1..(Len(tokens) - 1) |-> Coerced(tokens[q + 1], x.type)])]

\* The candidates of an enum that start with a token, in declared order
Narrowed(enum, t) == SelectSeq(enum, LAMBDA e : startsWith(e, t))

\* C6: for a token t at a variable with enum candidates: when t starts a
\* candidate and equals none, the one match returned carries the candidates
\* that start with t in declared order, ends at the variable and is not
\* invokable; when t equals a candidate, the match is full, the traversal
\* advances and the value bound is t.
C6_EnumNarrowing ==
    Matched =>
        \A k \in 1..Len(commands) :
            LET scheme == commands[k].scheme
                x == scheme[2]
                t == tokens[2]
                equals == \E i \in 1..Len(x.enum) : x.enum[i] = t
            IN (/\ Len(scheme) >= 2
                /\ x.cls = "variable"
                /\ x.hasEnum
                /\ Len(tokens) = 2
                /\ tokens[1] = commands[k].name)
               => /\ (~equals /\ Narrowed(x.enum, t) # <<>>)
                        => /\ Len(results) = 1
                           /\ Len(results[1].nodes) = 2
                           /\ results[1].nodes[2].enums = Narrowed(x.enum, t)
                           /\ ~results[1].isInvokable
                  /\ equals
                        => \E i \in 1..Len(results) :
                              /\ Len(results[i].nodes) >= 2
                              /\ results[i].nodes[2].value = StringValue(t)
                              /\ segmentOf(results[i], 2).oid = x.oid
                              /\ Len(scheme) = 2 => results[i].isInvokable

\* The weight of a matched segment: keyword 4, variable with candidates 3,
\* variable of a type other than string 2, variable of type string or of no type 1
Weight(segment) ==
    IF segment.cls = "keyword" THEN 4
    ELSE IF segment.hasEnum \/ segment.hasProvider THEN 3
    ELSE IF segment.type \notin {"", "string"} THEN 2
    ELSE 1

RECURSIVE WeightFrom(_, _)
WeightFrom(m, p) ==
    IF p > Len(m.nodes) THEN 0 ELSE Weight(segmentOf(m, p)) + WeightFrom(m, p + 1)

\* The score of a returned match: the weights of its matched segments summed
Score(i) == WeightFrom(results[i], 1)

Invokables == {i \in 1..Len(results) : results[i].isInvokable}

\* The invokable matches no other invokable match outscores
Top == {i \in Invokables : \A j \in Invokables : Score(j) <= Score(i)}

\* The registered commands in the opposite order of registration
Reversed == [k \in 1..Len(commands) |-> commands[Len(commands) + 1 - k]]

\* C7: when several registered commands are invokable for a line and one of
\* them has a score strictly above all others, that command is selected, and
\* it is selected as well when the commands were registered in the opposite order.
C7_HighestScoreWins ==
    (Submitted /\ Cardinality(Invokables) >= 2 /\ Cardinality(Top) = 1) =>
        LET w == CHOOSE i \in Top : TRUE
            r == parseInput(Reversed, Line(tokens)).outcome
        IN /\ outcome.kind = "resolved"
           /\ outcome.command = results[w].command
           /\ r.kind = "resolved"
           /\ r.command = Len(commands) + 1 - results[w].command

\* set <v:string> registered before set <v:number>, and the line "set 5"
C7_Witness ==
    /\ Len(commands) = 2
    /\ commands[1].scheme[2].type = "string"
    /\ commands[2].scheme[2].type = "number"
    /\ tokens = <<w_set, w_5>>
    /\ Cardinality(Invokables) = 2
    /\ outcome.kind = "resolved"
    /\ outcome.command = 2
    /\ outcome.variables = [n \in {w_v} |-> Single(NumberValue(5, 0))]
    /\ calls = <<0, 1>>

\* C8: when two or more invokable matches share the highest score, the line
\* fails with AMBIGUOUS_COMMAND, the error names each of the tied commands,
\* and no callback runs.
C8_TieIsAmbiguous ==
    (Submitted /\ Cardinality(Top) >= 2) =>
        /\ outcome.kind = "AMBIGUOUS_COMMAND"
        /\ Len(outcome.names) = Cardinality(Top)
        /\ {outcome.names[i] : i \in 1..Len(outcome.names)}
              = {commands[results[i].command].name : i \in Top}
        /\ \A k \in 1..Len(calls) : calls[k] = 0

\* Two commands with candidates for the same token, and a line both accept
C8_Witness ==
    /\ Len(commands) = 2
    /\ commands[1] # commands[2]
    /\ tokens = <<w_set, w_5>>
    /\ Cardinality(Top) = 2
    /\ outcome.kind = "AMBIGUOUS_COMMAND"
    /\ outcome.names = <<w_set, w_set>>
    /\ calls = <<0, 0>>

RECURSIVE SumOf(_)
SumOf(s) == IF s = <<>> THEN 0 ELSE Head(s) + SumOf(Tail(s))

\* C9: a non-empty line ends in exactly one of four outcomes: UNKNOWN_COMMAND
\* when no command's graph returned a match, INCOMPLETE_COMMAND when matches
\* were returned and none is invokable, AMBIGUOUS_COMMAND when the highest
\* score is shared, and otherwise one resolved command; a callback runs only
\* for the resolved command, and at most once.
C9_FourOutcomes ==
    Submitted =>
        /\ outcome.kind \in {"UNKNOWN_COMMAND", "INCOMPLETE_COMMAND", "AMBIGUOUS_COMMAND", "resolved"}
        /\ outcome.kind = "UNKNOWN_COMMAND" <=> results = <<>>
        /\ outcome.kind = "INCOMPLETE_COMMAND" <=> (results # <<>> /\ Invokables = {})
        /\ outcome.kind = "AMBIGUOUS_COMMAND" <=> Cardinality(Top) >= 2
        /\ outcome.kind = "resolved" <=> Cardinality(Top) = 1
        /\ outcome.kind = "resolved" => outcome.command \in 1..Len(commands)
        /\ SumOf(calls) <= 1
        /\ \A k \in 1..Len(calls) :
              calls[k] > 0 => outcome.kind = "resolved" /\ outcome.command = k

\* One command ran its callback once while the other command's match for the
\* same line was not invokable
C9_Witness ==
    /\ Len(commands) = 2
    /\ outcome.kind = "resolved"
    /\ SumOf(calls) = 1
    /\ calls[outcome.command] = 1
    /\ \E i \in 1..Len(results) : ~results[i].isInvokable /\ results[i].command # outcome.command

\* A command whose scheme is its name and one typed variable
TypedVariableCommand(k) ==
    /\ Len(commands[k].scheme) = 2
    /\ commands[k].scheme[2].cls = "variable"
    /\ ~commands[k].scheme[2].isRest
    /\ commands[k].scheme[2].type \in {"string", "number"}
    /\ ~commands[k].scheme[2].hasEnum
    /\ ~commands[k].scheme[2].hasProvider

ResolvesTo(k) ==
    /\ outcome.kind = "resolved"
    /\ outcome.command = k
    /\ outcome.variables =
          [n \in {commands[k].scheme[2].name} |->
              Single(Coerced(tokens[2], commands[k].scheme[2].type))]

\* C10 as stated: a line that is the name of a registered command made of its
\* name and one typed variable, followed by one token of the variable's type,
\* resolves to that command and binds the variable to the coerced token.
C10_NameAndVariableResolves ==
    Submitted =>
        \A k \in 1..Len(commands) :
            (TypedVariableCommand(k) /\ Spells(commands[k].scheme, tokens)) => ResolvesTo(k)

\* C10: a line that is the name of a registered command made of its name and
\* one typed variable, followed by one token of the variable's type, resolves
\* to that command and binds the variable to the coerced token, provided
\* every invokable match of another registered command has a lower score.
C10_NameAndVariableResolvesUnlessOutscored ==
    Submitted =>
        \A k \in 1..Len(commands) :
            (/\ TypedVariableCommand(k)
             /\ Spells(commands[k].scheme, tokens)
             /\ \A i \in InvokableFor(k), j \in Invokables \ InvokableFor(k) : Score(j) < Score(i))
            => ResolvesTo(k)

\* ban <ip:string> and the line "ban 1.2.3.4", next to an outscored command
C10_Witness ==
    /\ \E k \in 1..Len(commands) :
          /\ commands[k].name = w_ban
          /\ TypedVariableCommand(k)
          /\ outcome.kind = "resolved"
          /\ outcome.command = k
          /\ calls[k] = 1
    /\ tokens = <<w_ban, w_addr>>
    /\ outcome.variables = [n \in {w_ip} |-> Single(StringValue(w_addr))]

\* A path of the graph from node n to the final EOF that spells argv from
\* position i + 1 on: markers take no token, every other node takes one token
\* that its segment accepts in full
RECURSIVE GraphAccepts(_, _, _, _)
GraphAccepts(nodes, n, argv, i) ==
    IF nodes[n].segment.cls = "control"
    THEN \/ IsFinalEOF(nodes[n].segment) /\ i = Len(argv)
         \/ \E e \in 1..Len(nodes[n].edges) : GraphAccepts(nodes, nodes[n].edges[e], argv, i)
    ELSE /\ i < Len(argv)
         /\ FullyMatches(nodes[n].segment, argv[i + 1])
         /\ \E e \in 1..Len(nodes[n].edges) : GraphAccepts(nodes, nodes[n].edges[e], argv, i + 1)

\* A MatchResult over argv: one matched node per token from the first token
\* on, each a keyword or variable node of the graph holding the token as raw
WellFormedMatch(m, argv) ==
    /\ m.isPartial \in BOOLEAN
    /\ m.isInvokable \in BOOLEAN
    /\ Len(m.nodes) <= Len(argv)
    /\ \A p \in 1..Len(m.nodes) :
          /\ m.nodes[p].node \in 1..Len(commands[m.command].nodes)
          /\ segmentOf(m, p).cls \in {"keyword", "variable"}
          /\ m.nodes[p].raw = argv[p]

\* C11: for every argv (empty tokens, tokens no segment accepts and more
\* tokens than the graph can take included) processInput returns a list of
\* MatchResults, and the list holds no invokable match when the graph does
\* not accept argv.
C11_ReturnsMatchesForEveryInput ==
    Matched =>
        /\ \A i \in 1..Len(results) : WellFormedMatch(results[i], tokens)
        /\ \A k \in 1..Len(commands) :
              ~GraphAccepts(commands[k].nodes, commands[k].graph, tokens, 0)
                  => InvokableFor(k) = {}

\* More tokens than the scheme can take, an empty token among them: nothing is returned
C11_Witness ==
    /\ Matched
    /\ Len(commands[1].scheme) = 2
    /\ Len(tokens) = 3
    /\ tokens[1] = commands[1].name
    /\ FullyMatches(commands[1].scheme[2], tokens[2])
    /\ tokens[3] = <<>>
    /\ results = <<>>

\* A variable with no type, no candidates and no provider
Untyped(segment) ==
    /\ segment.cls = "variable"
    /\ segment.type = ""
    /\ ~segment.hasEnum
    /\ ~segment.hasProvider

\* C12: a variable whose type is unset, with no enum, provider or flag type,
\* fully matches any token: for the command name followed by one non-empty token, a
\* match past the variable is returned, invokable, with the raw token as value.
C12_UntypedVariableMatchesAnyToken ==
    Matched =>
        \A k \in 1..Len(commands) :
            (/\ Len(commands[k].scheme) = 2
             /\ Untyped(commands[k].scheme[2])
             /\ Len(tokens) = 2
             /\ tokens[1] = commands[k].name
             /\ tokens[2] # <<>>)
            => \E i \in InvokableFor(k) :
                  /\ Len(results[i].nodes) = 2
                  /\ segmentOf(results[i], 2).oid = commands[k].scheme[2].oid
                  /\ results[i].nodes[2].value = StringValue(tokens[2])

\* The candidates of a variable: its enum, or else what its provider returns
Candidates(segment) == IF segment.hasEnum THEN segment.enum ELSE segment.provider

\* C13: for a variable with candidates (static or provided) and no type, a
\* token equal to one of the candidates is a full match, also when other
\* candidates start with the token: the command name and such a token are
\* invokable and the token is the value bound.
C13_EqualCandidateIsFullMatch ==
    Matched =>
        \A k \in 1..Len(commands) :
            LET x == commands[k].scheme[2] IN
            (/\ Len(commands[k].scheme) = 2
             /\ x.cls = "variable"
             /\ x.type = ""
             /\ x.hasEnum \/ x.hasProvider
             /\ Len(tokens) = 2
             /\ tokens[1] = commands[k].name
             /\ \E c \in 1..Len(Candidates(x)) : Candidates(x)[c] = tokens[2])
            => \E i \in InvokableFor(k) :
                  /\ Len(results[i].nodes) = 2
                  /\ results[i].nodes[2].value = StringValue(tokens[2])

\* The token starts the name and is not the name (the empty token included)
StrictPrefix(token, name) == startsWith(name, token) /\ token # name

OnlyKeywords(scheme) == \A p \in 1..Len(scheme) : scheme[p].cls = "keyword"

\* C14: a keyword node in a returned match holds either the keyword's name,
\* or a strict prefix of it as the last token of argv in a match that ends
\* there and is not invokable; for a scheme of keywords, argv that spells the
\* names up to a last token that is a strict prefix of the next name returns
\* that match, and a strict prefix at an earlier position returns nothing.
C14_KeywordPrefixOnlyAtLastToken ==
    Matched =>
        /\ \A i \in 1..Len(results) :
              \A p \in 1..Len(results[i].nodes) :
                  segmentOf(results[i], p).cls = "keyword" =>
                      \/ tokens[p] = segmentOf(results[i], p).name
                      \/ /\ StrictPrefix(tokens[p], segmentOf(results[i], p).name)
                         /\ p = Len(tokens)
                         /\ p = Len(results[i].nodes)
                         /\ ~results[i].isInvokable
        /\ \A k \in 1..Len(commands) :
              LET scheme == commands[k].scheme IN
              (OnlyKeywords(scheme) /\ Len(tokens) <= Len(scheme)) =>
                  \A p \in 1..Len(tokens) :
                      (/\ \A q \in 1..(p - 1) : tokens[q] = scheme[q].name
                       /\ StrictPrefix(tokens[p], scheme[p].name))
                      => IF p = Len(tokens)
                         THEN \E i \in 1..Len(results) :
                                 /\ Len(results[i].nodes) = p
                                 /\ results[i].nodes[p].raw = tokens[p]
                                 /\ ~results[i].isInvokable
                         ELSE results = <<>>

\* The name, a whole keyword and the empty token where a keyword is due
C14_Witness ==
    /\ Matched
    /\ OnlyKeywords(commands[1].scheme)
    /\ Len(commands[1].scheme) = 3
    /\ tokens = <<w_c, commands[1].scheme[2].name, <<>>>>
    /\ Len(results) = 1
    /\ Len(results[1].nodes) = 3
    /\ ~results[1].isInvokable

\* C15: every MatchResult that processInput returns is tagged: isPartial or
\* isInvokable is true, also for the match emitted for an unfinished keyword
\* and for a variable matched in part (candidates, flag, empty token).
C15_EveryMatchTagged ==
    Matched => \A i \in 1..Len(results) : results[i].isPartial \/ results[i].isInvokable

\* A scheme that is the command name and a union of two branches of one keyword each
UnionOfTwoKeywords(scheme) ==
    /\ Len(scheme) = 2
    /\ scheme[2].cls = "union"
    /\ Len(scheme[2].subSegments) = 2
    /\ \A b \in 1..2 : /\ Len(scheme[2].subSegments[b]) = 1
                       /\ scheme[2].subSegments[b][1].cls = "keyword"

\* C16: for a command that is a union of the keyword branches a and b, the
\* name with a alone and the name with b alone are invokable, the name with
\* a then b (or b then a) is not, and no returned match of any scheme with a
\* union holds nodes of two branches of that union.
C16_UnionBranchesExclusive ==
    Matched =>
        \A k \in 1..Len(commands) :
            LET scheme == commands[k].scheme
                a == scheme[2].subSegments[1][1].name
                b == scheme[2].subSegments[2][1].name
            IN /\ UnionOfTwoKeywords(scheme) =>
                    /\ tokens \in {<<scheme[1].name, a>>, <<scheme[1].name, b>>}
                          => InvokableFor(k) # {}
                    /\ tokens \in {<<scheme[1].name, a, b>>, <<scheme[1].name, b, a>>}
                          => InvokableFor(k) = {}
               /\ \A p \in UnionPositions(scheme) :
                     \A i \in 1..Len(results) :
                         results[i].command = k => Cardinality(branchesUsed(results[i], p)) <= 1

\* The name and b: one invokable match, through the second branch only
C16_Witness ==
    /\ Matched
    /\ UnionOfTwoKeywords(commands[1].scheme)
    /\ tokens = <<w_c, w_b>>
    /\ Len(results) = 1
    /\ results[1].isInvokable
    /\ branchesUsed(results[1], 2) = {2}

HexDigitValue(c) ==
    CASE c = "a" -> 10 [] c = "b" -> 11 [] c = "c" -> 12 [] c = "d" -> 13
      [] c = "e" -> 14 [] c = "f" -> 15 [] OTHER -> DigitValue(c)

RECURSIVE HexToNat(_)
HexToNat(ds) ==
    IF ds = <<>> THEN 0
    ELSE 16 * HexToNat(SubSeq(ds, 1, Len(ds) - 1)) + HexDigitValue(ds[Len(ds)])

\* A token that denotes a number, and the number it denotes
Numeric(token) == IsDecimalLiteral(token) \/ IsHexLiteral(token)
NumericValue(token) ==
    IF IsHexLiteral(token) THEN NumberValue(HexToNat(SubSeq(token, 3, Len(token))), 0)
    ELSE DecimalValue(token)

\* C17: under the type boolean exactly the tokens true and false are accepted
\* and parsed to true and false; under the type number the empty token and
\* every token that denotes no number are rejected and an accepted token is
\* parsed to the number it denotes (3.14 to 3.14); under the type flag only
\* the variable's name is accepted, and it is parsed to true.
C17_TypeCoercion ==
    outcome.kind = "value" =>
        LET segment == results[1].segment
            accepted == results[1].accepted
            value == results[1].value
            token == tokens[1]
        IN /\ segment.type = "boolean" =>
                /\ accepted <=> token \in {w_true, w_false}
                /\ accepted => value = BooleanValue(token = w_true)
           /\ segment.type = "number" =>
                /\ (token = <<>> \/ ~Numeric(token)) => ~accepted
                /\ accepted => value = NumericValue(token)
                /\ token = w_pi => accepted /\ value = NumberValue(314, 2)
           /\ segment.type = "flag" =>
                /\ accepted <=> token = segment.name
                /\ accepted => value = BooleanValue(TRUE)

\* A segment that the constructors accept: a keyword or a variable has a
\* name, a variable's type is unset or one of the six types
SupportedSegment(segment) ==
    /\ segment.cls \in {"keyword", "variable"} => segment.name # <<>>
    /\ segment.cls = "variable" =>
          segment.type \in {"", "any", "number", "string", "boolean", "date", "flag"}

\* C18: a keyword with an empty name, a variable with an empty name and a
\* variable with a type outside any, number, string, boolean, date, flag fail
\* at construction, so no registered command (its name keyword included) and
\* no returned match ever holds such a segment.
C18_MalformedSegmentsNeverRegistered ==
    /\ \A k \in 1..Len(commands) :
          /\ commands[k].name # <<>>
          /\ \A s \in leaves(commands[k].scheme) : SupportedSegment(s)
          /\ \A n \in 1..Len(commands[k].nodes) : SupportedSegment(commands[k].nodes[n].segment)
    /\ Submitted =>
          \A i \in 1..Len(results) :
              \A p \in 1..Len(results[i].nodes) : SupportedSegment(segmentOf(results[i], p))
    /\ \A r \in CommandRequests :
          (r.name = <<>> \/ \E s \in leaves(r.scheme) : ~SupportedSegment(s))
              => \A k \in 1..Len(commands) :
                    commands[k].scheme # Instances(<<KeywordSegment(r.name)>> \o r.scheme, <<>>)

\* A construction failed after a command was registered: the registry is as it was
C18_Witness ==
    /\ outcome.kind = "Error"
    /\ Len(commands) = 1
    /\ commands[1].name = w_set

\* The EOF markers of a graph, and those with id 0
EOFs(nodes) ==
    {n \in 1..Len(nodes) : nodes[n].segment.cls = "control" /\ ~nodes[n].segment.isBof}
FinalEOFs(nodes) == {n \in EOFs(nodes) : nodes[n].segment.id = 0}

\* The final EOF is node n or is reached from n through markers only
RECURSIVE ReachesFinalEOF(_, _)
ReachesFinalEOF(nodes, n) ==
    /\ nodes[n].segment.cls = "control"
    /\ \/ IsFinalEOF(nodes[n].segment)
       \/ \E e \in 1..Len(nodes[n].edges) : ReachesFinalEOF(nodes, nodes[n].edges[e])

\* C19: every compiled graph has exactly one EOF marker with id 0, the EOF of
\* the root scope, and it has no outgoing edge; a match is invokable only if
\* every token of argv was consumed and the final EOF is reached from its
\* last node through markers only (ending at the EOF of an optional group,
\* of a union or of a branch does not make it invokable).
C19_FinalEOFUniqueAndTerminal ==
    /\ \A k \in 1..Len(commands) :
          LET nodes == commands[k].nodes IN
          /\ Cardinality(FinalEOFs(nodes)) = 1
          /\ FinalEOFs(nodes) = {commands[k].graph + 1}
          /\ nodes[commands[k].graph].segment.isBof
          /\ nodes[commands[k].graph].segment.id = 0
          /\ nodes[commands[k].graph + 1].edges = <<>>
    /\ Matched =>
          \A i \in 1..Len(results) :
              results[i].isInvokable =>
                  LET nodes == commands[results[i].command].nodes
                      last == nodes[results[i].nodes[Len(results[i].nodes)].node]
                  IN /\ Len(results[i].nodes) = Len(tokens)
                     /\ Len(tokens) > 0
                     /\ \E e \in 1..Len(last.edges) : ReachesFinalEOF(nodes, last.edges[e])

\* An invokable match that went through a union and an optional group, whose
\* EOFs are not final
C19_Witness ==
    /\ Matched
    /\ Cardinality(EOFs(commands[1].nodes)) >= 5
    /\ \E i \in InvokableFor(1) :
          /\ Len(results[i].nodes) = 3
          /\ Len(oidsOfMatch(results[i])[2]) = 3
          /\ Len(oidsOfMatch(results[i])[3]) = 2

\* The marker pairs of the registered commands: the command and the BOF node
\* (the EOF of the pair is the node allocated next)
BOFs(nodes) ==
    {n \in 1..Len(nodes) : nodes[n].segment.cls = "control" /\ nodes[n].segment.isBof}
MarkerPairs == UNION {{<<k, n>> : n \in BOFs(commands[k].nodes)} : k \in 1..Len(commands)}
PairId(pair) == commands[pair[1]].nodes[pair[2]].segment.id

\* C20 as stated: over all scopes of all the command graphs compiled, no two
\* marker pairs share an id, and a pair allocated later (in a graph compiled
\* later, or later in the same graph) has a higher id.
C20_MarkerIdsProcessWide ==
    \A p, q \in MarkerPairs :
        /\ p # q => PairId(p) # PairId(q)
        /\ (p[1] < q[1] \/ (p[1] = q[1] /\ p[2] < q[2])) => PairId(p) < PairId(q)

\* C20: within the graph of one command, the marker pairs have the ids 0, 1,
\* 2, ... in allocation order, the BOF and the EOF of a pair carry the same
\* id and no two pairs share one; the graph of every command starts again at 0.
C20_MarkerIdsPerGraph ==
    \A k \in 1..Len(commands) :
        LET nodes == commands[k].nodes IN
        /\ \A n \in BOFs(nodes) :
              /\ n + 1 \in EOFs(nodes)
              /\ nodes[n + 1].segment.id = nodes[n].segment.id
              /\ nodes[n].segment.id = Cardinality({m \in BOFs(nodes) : m < n})
        /\ Cardinality(EOFs(nodes)) = Cardinality(BOFs(nodes))
        /\ \A n, m \in BOFs(nodes) : n # m => nodes[n].segment.id # nodes[m].segment.id
        /\ nodes[commands[k].graph].segment.id = 0

\* Two commands, one of them with the scopes of a union, its branches and an
\* optional group
C20_Witness ==
    /\ Len(commands) = 2
    /\ Cardinality(BOFs(commands[1].nodes)) = 1
    /\ Cardinality(BOFs(commands[2].nodes)) = 5
    /\ {commands[2].nodes[n].segment.id : n \in BOFs(commands[2].nodes)} = 0..4

\* The variables of a scheme whose candidates come from a provider function
ProviderVariables(scheme) ==
    {s \in leaves(scheme) : s.cls = "variable" /\ s.hasProvider /\ ~s.hasEnum}

\* C21: during one processInput call the provider function of a variable is
\* invoked at most once, however often the variable's node is visited (a rest
\* variable taking several tokens, a node reached along several paths): the
\* number of provider invocations of a call is at most the number of
\* variables with a provider.
C21_ProviderInvokedAtMostOnce ==
    Matched =>
        \A k \in 1..Len(commands) :
            providerCalls <= Cardinality(ProviderVariables(commands[k].scheme))

\* A segment as it was constructed: _provided_enum, the field of the segment
\* object in which the matcher stores what the provider returned, is null
Declared(segment) == [segment EXCEPT !.hasProvided = FALSE, !.provided = <<>>]

\* The graph of command k as its constructor compiled it
Compiled(k) == generateGraph(NewGraphGenerator, commands[k].scheme).G.nodes

\* C22: processInput never changes the compiled graph: after any sequence of
\* matcher calls the graph has the nodes it was compiled with, every node
\* holds the segment object and the edge list it was given at construction
\* (the segment's own provider cache aside), and a second call with the same
\* argv on the graph as the first call left it returns an equal result list.
C22_GraphUnchangedByMatching ==
    /\ \A k \in 1..Len(commands) :
          [n \in 1..Len(commands[k].nodes) |->
              GraphNode(Declared(commands[k].nodes[n].segment), commands[k].nodes[n].edges)]
          = Compiled(k)
    /\ Matched =>
          \A k \in 1..Len(commands) :
              results = matchesOf(processInput(tokens, commands[k].nodes, commands[k].graph), k)

\* A call that ran the provider, stored its result on the segment and
\* returned an invokable match past the variable
C22_Witness ==
    /\ Matched
    /\ tokens = <<w_c, w_push, w_a>>
    /\ \E n \in 1..Len(commands[1].nodes) : commands[1].nodes[n].segment.hasProvided
    /\ \E i \in InvokableFor(1) : Len(results[i].nodes) = 3

\* The list of matches as the loop of processInput left it, before it is
\* turned into a set: one entry per emission
Emitted(k) == processLoop(startOf(commands[k].nodes, commands[k].graph), tokens).matches

Range(seq) == {seq[i] : i \in 1..Len(seq)}

ResultsFor(k) == {i \in 1..Len(results) : results[i].command = k}

\* C27: the list processInput returns holds no MatchResult object twice, also
\* when the loop emitted the same object several times; every emitted object
\* is in the list.
C27_NoMatchObjectTwice ==
    Matched =>
        /\ \A i, j \in 1..Len(results) :
              (i # j /\ results[i].command = results[j].command)
                  => results[i].object # results[j].object
        /\ \A k \in 1..Len(commands) :
              Range(Emitted(k)) = {results[i].object : i \in ResultsFor(k)}

\* One object emitted at a pending node of a trailing group and again at the
\* final EOF, next to the match through the other group
C27_Witness ==
    /\ Matched
    /\ trailingOptionals(commands[1].scheme) = 2
    /\ Len(tokens) = 2
    /\ Len(Emitted(1)) = 3
    /\ Len(results) = 2
    /\ Cardinality(Range(Emitted(1))) = 2

\* C29: no MatchResult returned by processInput is both partial and
\* invokable: a match that is invokable for argv (a command with a trailing
\* optional group or a rest variable, given a complete input) is not flagged
\* partial as well.
C29_NeverPartialAndInvokable ==
    Matched => \A i \in 1..Len(results) : ~(results[i].isPartial /\ results[i].isInvokable)

\* The positions of a match that hold a variable, and those of one name
VariablePositions(m) == {p \in 1..Len(m.nodes) : segmentOf(m, p).cls = "variable"}
PositionsNamed(m, n) == {p \in VariablePositions(m) : segmentOf(m, p).name = n}

\* The q-th position of a set of positions, and the values held there in path order
Nth(ps, q) == CHOOSE p \in ps : Cardinality({r \in ps : r <= p}) = q
ValuesAt(m, ps) == [q \in 1..Cardinality(ps) |-> m.nodes[Nth(ps, q)].value]

\* C25: the variables object of a resolved line has exactly the names of the
\* variables consumed on the path of the selected match (the invokable match
\* of the highest score): a variable of a skipped optional group is absent,
\* a consumed flag is bound to true, a non-rest variable is bound to the
\* single value of its last consumed node of that name, a rest variable to
\* the list of its values, and no keyword is a name of the object.
C25_VariablesOfSelectedPath ==
    (Submitted /\ outcome.kind = "resolved") =>
        \E i \in Top :
            LET m == results[i] IN
            /\ m.command = outcome.command
            /\ DOMAIN outcome.variables = {segmentOf(m, p).name : p \in VariablePositions(m)}
            /\ \A p \in VariablePositions(m) :
                  LET n == segmentOf(m, p).name
                      ps == PositionsNamed(m, n)
                  IN /\ segmentOf(m, p).isRest =>
                           outcome.variables[n] = Array(ValuesAt(m, ps))
                     /\ ~segmentOf(m, p).isRest =>
                           outcome.variables[n] = Single(m.nodes[Nth(ps, Cardinality(ps))].value)
                     /\ segmentOf(m, p).type = "flag" =>
                           outcome.variables[n] = Single(BooleanValue(TRUE))
            /\ \A p \in 1..Len(m.nodes) :
                  segmentOf(m, p).cls = "keyword" =>
                      segmentOf(m, p).name \notin DOMAIN outcome.variables

\* stop [force] and the line stop: the flag was skipped and is not bound
C25_Witness ==
    /\ tokens = <<w_stop>>
    /\ outcome.kind = "resolved"
    /\ \E s \in leaves(commands[outcome.command].scheme) : s.type = "flag"
    /\ outcome.variables = NoVariables
    /\ calls[outcome.command] = 1

\* C26: the segments field of a resolved line is the MatchedNode sequence of
\* the selected match, the one the command and the variables are taken from,
\* also when another invokable match precedes it in registration order.
C26_SegmentsOfSelectedMatch ==
    (Submitted /\ outcome.kind = "resolved") =>
        \E i \in Top :
            /\ results[i].command = outcome.command
            /\ outcome.segments = results[i].nodes

\* The registered commands whose graph accepts the submitted tokens
Accepting == {k \in 1..Len(commands) : GraphAccepts(commands[k].nodes, commands[k].graph, tokens, 0)}

\* C30: AMBIGUOUS_COMMAND is raised only when two distinct registered
\* commands tie, and a line that exactly one registered command accepts
\* resolves to that command, also when its graph accepts the line along more
\* than one path.
C30_AmbiguityOnlyAcrossCommands ==
    Submitted =>
        /\ outcome.kind = "AMBIGUOUS_COMMAND" =>
              \E i, j \in Top : results[i].command # results[j].command
        /\ \A k \in 1..Len(commands) :
              Accepting = {k} => (outcome.kind = "resolved" /\ outcome.command = k)

\* The marker (epsilon) nodes of a graph
Markers(nodes) == {n \in 1..Len(nodes) : nodes[n].segment.cls = "control"}

\* No path of markers that starts at n, having come through the markers in
\* `seen`, comes back to a marker it went through
RECURSIVE NoMarkerCycleFrom(_, _, _)
NoMarkerCycleFrom(nodes, n, seen) ==
    /\ n \notin seen
    /\ \A x \in 1..Len(nodes[n].edges) :
          nodes[n].edges[x] \in Markers(nodes)
              => NoMarkerCycleFrom(nodes, nodes[n].edges[x], seen \cup {n})

\* No marker reaches itself through markers only
EpsilonAcyclic(nodes) == \A n \in Markers(nodes) : NoMarkerCycleFrom(nodes, n, {})

\* The frames an iteration pushed, given the stack before and after it
Pushed(before, after) == SubSeq(after, Len(before), Len(after))

\* C28: processInput terminates for every argv and every graph compiled from
\* a scheme with rest variables, nested or empty optional groups and unions:
\* the marker-only subgraph has no cycle, every frame pushed for the edges of
\* a keyword or variable node has the next argv index, every frame pushed
\* for the edges of a marker has the same one, no index passes the end of
\* argv, the loop stays below MaxSteps iterations, and a call that was
\* entered returns.
C28_ProcessInputTerminates ==
    /\ [](/\ ~loop.running => \A k \in 1..Len(commands) : EpsilonAcyclic(commands[k].nodes)
          /\ \A f \in 1..Len(loop.stack) : loop.stack[f].index <= Len(tokens)
          /\ loop.steps < MaxSteps)
    /\ [][(loop.running /\ loop'.running) =>
             LET item == loop.stack[Len(loop.stack)]
                 solid == loop.nodes[item.node].segment.cls # "control"
             IN \A f \in 1..Len(Pushed(loop.stack, loop'.stack)) :
                    Pushed(loop.stack, loop'.stack)[f].index
                        = IF solid THEN item.index + 1 ELSE item.index]_vars
    /\ (loop.running ~> outcome.kind = "matched")

\* The loop ran through the self-loop of a rest variable inside an optional
\* group, one token per visit, and the call returned an invokable match
C28_Witness ==
    /\ Matched
    /\ Len(tokens) = 3
    /\ commands[1].scheme[2].cls = "optional"
    /\ \E i \in InvokableFor(1) :
          /\ Len(results[i].nodes) = 3
          /\ results[i].nodes[2].node = results[i].nodes[3].node
          /\ segmentOf(results[i], 3).isRest


\* The handler suspended at position h was started for another buffer
Stale(h) == cli.suspended[h].input # cli.buffer

\* The handler that was suspended at position h has gone on
Resumed(h) ==
    /\ h \in 1..Len(cli.suspended)
    /\ cli'.suspended = SubSeq(cli.suspended, 1, h - 1)
                            \o SubSeq(cli.suspended, h + 1, Len(cli.suspended))

\* C23: a preview that arrives after the buffer has changed is ignored: the
\* continuation of a handler that was started for another buffer leaves
\* this.autocomplete as the later handler set it.
C23_StalePreviewIgnored ==
    [][\A h \in 1..MaxSuspended :
          (Resumed(h) /\ Stale(h)) => cli'.autocomplete = cli.autocomplete]_vars

\* C24: the keypress handler never lets an exception escape: whatever the
\* buffer and the commands, the handler that ran last threw nothing, and on a
\* buffer that is not empty it left the hint set.
C24_HintHandlerNeverThrows ==
    /\ cli.thrown = "none"
    /\ cli.buffer # <<>> => cli.hint.set


\* C31: every MatchResult returned for argv holds at most Len(argv) nodes,
\* node i holds token i as its raw text and is no marker, and every invokable
\* match holds exactly Len(argv) nodes, so the candidates of resolveCommand
\* are equally long.
C31_NodesFollowArgv ==
    Matched =>
        \A i \in 1..Len(results) :
            /\ Len(results[i].nodes) <= Len(tokens)
            /\ \A p \in 1..Len(results[i].nodes) :
                  /\ results[i].nodes[p].raw = tokens[p]
                  /\ segmentOf(results[i], p).cls # "control"
            /\ results[i].isInvokable => Len(results[i].nodes) = Len(tokens)

\* Three tokens were matched along two paths: two invokable matches were
\* returned, of three nodes each
C31_Witness ==
    /\ Matched
    /\ Len(tokens) = 3
    /\ Cardinality({i \in 1..Len(results) :
                       results[i].isInvokable /\ Len(results[i].nodes) = 3}) >= 2

\* C32: every match returned that is not invokable ends at the last token of
\* argv: no match ends in an unfinished token that further tokens follow.
C32_PartialEndsAtLastToken ==
    Matched =>
        \A i \in 1..Len(results) :
            ~results[i].isInvokable => Len(results[i].nodes) = Len(tokens)


\* The match the handler completes for the buffer: the first of the sorted
\* matches of the loop's result l
chosenMatch(l) == sortedMatches(l.commands, l.matches)[1]

\* The completion fits the match it was made for: the typed token and the
\* suffix make the target, and the match's last segment accepts the target
Fits(cmds, match, completion) ==
    /\ lastNode(match).raw \o completion.raw = completion.target
    /\ FullyMatches(lastSegment(cmds, match), completion.target)

\* C33: the completion computed on a keypress is consistent with the typed
\* token: typed token + suffix = target, and the target is a token the last
\* segment of the chosen match accepts, whatever the kind of the segment.
C33_CompletionFitsTypedToken ==
    (cli.buffer # <<>> /\ cli.completion.set) =>
        \A l \in {lookupCommands(commands, parseArgv(cli.buffer), 1, <<>>)} :
            Fits(l.commands, chosenMatch(l), cli.completion)

\* The ids of the prompts of a queue, in the order of the queue
idsOf(queue) == [i \in 1..Len(queue) |-> queue[i].id]

\* The ids from a + 1 to b
idsFrom(a, b) == [i \in 1..(b - a) |-> a + i]

\* With a prompt awaiting, the head of the queue is the one active prompt,
\* the promises are resolved in the order of the getInput calls and no hint,
\* autocomplete or completion is on screen
PromptsInOrder ==
    /\ \A i \in 1..Len(cli.awaitingInputsQueue) : cli.awaitingInputsQueue[i].isActive <=> i = 1
    /\ idsOf(cli.answered) = idsFrom(0, Len(cli.answered))
    /\ idsOf(cli.awaitingInputsQueue) = idsFrom(Len(cli.answered), cli.asked)
    /\ cli.awaitingInputsQueue # <<>> => cli.hint = NoHint /\ cli.autocomplete = NoAutocomplete

\* A handler that starts with a prompt awaiting runs no command callback and
\* resolves at most the promise at the head of the queue, with the line
\* the Return key submitted; a handler that starts with no prompt awaiting
\* resolves no promise
LineAnswersHead ==
    /\ cli.awaitingInputsQueue # <<>> =>
          /\ \A k \in 1..Len(calls') : calls'[k] = 0
          /\ commands' = commands
          /\ \/ cli'.answered = cli.answered /\ cli'.processed # <<"RETURN">>
             \/ /\ Len(cli'.answered) = Len(cli.answered) + 1
                /\ cli'.answered[Len(cli'.answered)].id = cli.awaitingInputsQueue[1].id
                /\ cli'.processed = <<"RETURN">> =>
                      cli'.answered[Len(cli'.answered)].input = cli.buffer
    /\ cli.awaitingInputsQueue = <<>> => cli'.answered = cli.answered

\* C34: while awaitingInputsQueue is non-empty a submitted line is never
\* parsed or dispatched as a command and no hint is computed; each line
\* resolves exactly one promise, in the order of the getInput calls, with at
\* most one prompt active; the line that triggered a command whose callback
\* calls getInput is not delivered to that prompt
C34_LinesGoToPrompts == [] PromptsInOrder /\ [][LineAnswersHead]_vars

\* The Return key has resolved the first promise with the line "c" that names
\* the command, no callback has run and the second prompt is now active
C34_Witness ==
    /\ Len(cli.answered) = 1
    /\ cli.answered[1].input = w_c
    /\ cli.processed = <<"RETURN">>
    /\ calls = <<0>>
    /\ Len(cli.awaitingInputsQueue) = 1
    /\ cli.awaitingInputsQueue[1].isActive

\* C35: once the last prompt of the queue is answered, buffer, cursor, prompt,
\* hint and autocomplete are what they were when the first prompt became active
C35_EditingStateRestored ==
    [][cli.awaitingInputsQueue # <<>> /\ cli'.awaitingInputsQueue = <<>> =>
          /\ cli'.buffer = cli.first.buffer
          /\ cli'.cursor = cli.first.cursor
          /\ cli'.prompt = cli.first.prompt
          /\ cli'.hint = cli.first.hint
          /\ cli'.autocomplete = cli.first.autocomplete]_vars

\* The CLI with the buffer, cursor, prompt, hint and autocomplete that the
\* first prompt of the queue cached
withFirst(C) ==
    [C EXCEPT !.buffer = C.first.buffer, !.cursor = C.first.cursor, !.prompt = C.first.prompt,
              !.hint = C.first.hint, !.autocomplete = C.first.autocomplete]

\* C35 as the code has it: once the last prompt of the queue is answered,
\* buffer, cursor and prompt are what they were when the first prompt became
\* active; hint and autocomplete are too when sendInput was called directly,
\* and after the Return key they are what the keypress handler leaves for the
\* restored values
C35_RestoredThenRefreshed ==
    [][cli.awaitingInputsQueue # <<>> /\ cli'.awaitingInputsQueue = <<>> =>
          \E R \in {IF cli'.processed = <<"RETURN">>
                    THEN keypressed(Handling(withFirst(cli'), commands')).cli
                    ELSE withFirst(cli')} :
              /\ cli'.buffer = cli.first.buffer
              /\ cli'.cursor = cli.first.cursor
              /\ cli'.prompt = cli.first.prompt
              /\ cli'.hint = R.hint
              /\ cli'.autocomplete = R.autocomplete]_vars

\* The Return key has answered the last prompt and the line "c", typed before
\* the first prompt became active, is back in the buffer
C35_Witness ==
    /\ cli.awaitingInputsQueue = <<>>
    /\ cli.answered # <<>>
    /\ cli.processed = <<"RETURN">>
    /\ cli.first.buffer = w_c
    /\ cli.buffer = w_c
    /\ cli.cursor = cli.first.cursor
    /\ cli.prompt = cli.first.prompt

\* The keys of the buffered keystrokes, in the order of the buffer
RECURSIVE keysOf(_)
keysOf(keystrokes) ==
    IF keystrokes = <<>> THEN <<>> ELSE Head(keystrokes) \o keysOf(Tail(keystrokes))

\* The keys _keyProcess has taken, then the buffered ones, are the keys that
\* arrived, in their order; a CLI that is not paused has none buffered
KeysInOrder ==
    /\ cli.processed \o keysOf(cli.keystrokeBuffer) = cli.arrived
    /\ cli.isResumed => keysOf(cli.keystrokeBuffer) = <<>>

\* A chunk that arrives while the CLI is paused is buffered and not processed
PausedKeysWait ==
    ~cli.isResumed /\ cli'.arrived # cli.arrived =>
        /\ cli'.processed = cli.processed
        /\ cli'.keystrokeBuffer = Append(cli.keystrokeBuffer,
                                         SubSeq(cli'.arrived, Len(cli.arrived) + 1,
                                                Len(cli'.arrived)))

\* C36: keystrokes that arrive while the CLI is paused are not processed
\* until resume(); they are then processed in arrival order, each exactly
\* once, the rest of a chunk whose key paused the CLI included, also when a
\* key pauses the CLI again while the buffer is processed
C36_PausedKeysInOrder == [] KeysInOrder /\ [][PausedKeysWait]_vars

\* The line "s" has paused the CLI twice and, resumed twice, the CLI has
\* processed every key that arrived
C36_Witness ==
    /\ cli.isResumed
    /\ cli.arrived = <<"s", "RETURN", "s", "RETURN", "a">>
    /\ cli.processed = cli.arrived
    /\ cli.buffer = <<"a">>
    /\ cli.keystrokeBuffer = <<>>

\* The cursor is within the buffer, the pointer within the history, and the
\* history holds no empty line and no line next to an equal one
EditorInRange ==
    /\ 0 <= cli.cursor /\ cli.cursor <= Len(cli.buffer)
    /\ 0 <= cli.pointer /\ cli.pointer <= Len(cli.history)
    /\ \A i \in 1..Len(cli.history) : cli.history[i] # <<>>
    /\ \A i \in 1..(Len(cli.history) - 1) : cli.history[i] # cli.history[i + 1]

\* The Return key leaves the pointer at the end of the history, which has
\* gained the submitted line when that is not empty and not its last line
ReturnMovesPointer ==
    cli'.processed = <<"RETURN">> =>
        /\ cli'.pointer = Len(cli'.history)
        /\ cli'.history =
              IF cli.buffer # <<>> /\ (cli.history = <<>> \/
                                        cli.buffer # cli.history[Len(cli.history)])
              THEN Append(cli.history, cli.buffer)
              ELSE cli.history

\* C37: after any sequence of keys, prompt activation and restore included,
\* 0 <= cursor <= buffer.length and 0 <= pointer <= history.length; after
\* Return the pointer is history.length; an empty line is never added to the
\* history, nor a line equal to its last entry
C37_CursorAndPointerInRange == [] EditorInRange /\ [][ReturnMovesPointer]_vars

\* The Return key has answered the prompt: the history keeps its one line,
\* the pointer is at its end, and the line and the cursor cached by the
\* prompt, "c" with the cursor at its start, are back
C37_Witness ==
    /\ cli.processed = <<"RETURN">>
    /\ cli.awaitingInputsQueue = <<>>
    /\ cli.history = <<w_cc>>
    /\ cli.pointer = 1
    /\ cli.buffer = <<"c">>
    /\ cli.cursor = 0

====
